---- MODULE Spec2Model ----
(***************************************************************************)
(* A model of badger-rs: the transaction oracle (src/txn/oracle.rs), the   *)
(* manifest (src/manifest.rs) and the levels controller                    *)
(* (src/level/levels.rs).  Each subsystem has its own specification over   *)
(* its own variables; the other variables stay at their initial value.     *)
(***************************************************************************)
EXTENDS Integers, Sequences, FiniteSets, TLC

VARIABLES
    \* ---- oracle (src/txn/oracle.rs)
    config,        \* TxnConfig: [managed_txns, detect_conflicts]
    inner,         \* OracleInner, the data behind Oracle.inner
    inner_lock,    \* holder of the Oracle.inner mutex, 0 when free
    read_mark,     \* WaterMark "badger.PendingReads"
    txn_mark,      \* WaterMark "badger.TxnTimestamp"
    txns,          \* the transactions driving the oracle
    commits,       \* history: every commit that returned Ok, [ts, conflict_keys]
    \* ---- cleanup_committed_txns applied to drawn inputs
    cl,            \* [pc, guard, done_until, readers, before]
    \* ---- manifest (src/manifest.rs)
    m_cfg,         \* ManifestConfig: [external_magic_version, read_only]
    m_file,        \* the MANIFEST file: [exists, bytes]
    m_log,         \* history: the changes appended to the file, in order
    m_torn,        \* history: the file ends with a partial record
    m_res,         \* what the last ManifestConfig::build returned
    \* ---- levels controller (src/level/levels.rs)
    levels,        \* LevelsController.levels: per level, its tables in order
    compact_status,\* CompactStatus: [levels (ranges per level), tables (ids)]
    compactors,    \* per compaction worker: [pc, result, compact_def]
    clock,         \* [now, discard_ts]: SystemTime::now() and the GC watermark
    closer,        \* [captured]: the shutdown signal shared by the workers
    next_file_id,  \* LevelsController.next_file_id (AtomicU32)
    reserved,      \* the ids get_reserve_file_id returned, with the calling task
    dir,           \* the ids of the table files in the directory
    reverted,      \* what revert_to_manifest returned
    opening,       \* open_tables_by_manifest: the tables to open and the result
    block,         \* a BackendBlock being filled and the SinkBlockIter over it
    table_iter,    \* a table's blocks and the SinkTableIter over them
    builder,       \* a TableBuilder with its compression tasks
    vlog,          \* the value log: segments, writable offset, requests
    arena,         \* the skip list arena: capacity, cursor, regions handed out
    table_locks    \* the table-list locks of the levels and the tasks taking them

oracle_vars == <<config, inner, inner_lock, read_mark, txn_mark, txns, commits>>
manifest_vars == <<m_cfg, m_file, m_log, m_torn, m_res>>
compact_vars == <<levels, compact_status, compactors, clock, closer>>
file_vars == <<next_file_id, reserved, dir, reverted>>
storage_vars == <<opening, block, table_iter, builder, vlog, arena, table_locks>>
vars == <<oracle_vars, cl, manifest_vars, compact_vars, file_vars, storage_vars>>

(***************************************************************************)
(* Bounds                                                                  *)
(***************************************************************************)
NumTxns == 2        \* concurrent transactions
MaxTs == 2          \* next_txn_ts is not advanced beyond MaxTs + 1
MaxCommitted == 1   \* recorded commits of a managed oracle

Txns == 1..NumTxns
Ts == 0..(MaxTs + 1)
\* the key hashes transactions read and write: a key K and a disjoint key
KeyHashes == {1, 2}

Max(S) == CHOOSE x \in S : \A y \in S : y <= x

(***************************************************************************)
(* WaterMark (src/txn/water_mark.rs is not part of the sources): a set of  *)
(* pending timestamps with their counts, and done_until, the highest       *)
(* timestamp seen such that nothing at or below it is still pending.       *)
(***************************************************************************)
NewWaterMark == [pending |-> [i \in Ts |-> 0], seen |-> {}, done_until |-> 0]

Process(m) ==
    LET ok == {i \in m.seen : \A j \in m.seen : j <= i => m.pending[j] = 0}
        until == IF ok = {} THEN m.done_until ELSE Max(ok \cup {m.done_until})
    IN  [m EXCEPT !.done_until = until, !.seen = {i \in m.seen : i \notin ok}]

MarkBegin(m, ts) ==
    Process([m EXCEPT !.pending[ts] = @ + 1, !.seen = @ \cup {ts}])

MarkDone(m, ts) ==
    Process([m EXCEPT !.pending[ts] = @ - 1, !.seen = @ \cup {ts}])

DoneUntil(m) == m.done_until

\* wait_for_mark(ts) returns once done_until has reached ts
WaitForMarkReady(m, ts) == DoneUntil(m) >= ts

(***************************************************************************)
(* Oracle                                                                  *)
(***************************************************************************)
\* OracleInner::default(), with next_txn_ts set on open (oracle.rs:35)
NewOracleInner ==
    [next_txn_ts |-> 1, discard_ts |-> 0, last_cleanup_ts |-> 0,
     committed_txns |-> <<>>]

NewTxn ==
    [pc |-> "idle", read_ts |-> 0, commit_ts |-> 0, done_read |-> FALSE,
     must_conflict |-> FALSE]

\* oracle.rs:88-100: a committed transaction newer than the snapshot holds a
\* key the transaction read
HasConflict(committed_txns, read_ts, read_key_hash) ==
    /\ read_key_hash # {}
    /\ \E i \in 1..Len(committed_txns) :
          /\ committed_txns[i].ts > read_ts
          /\ committed_txns[i].conflict_keys \cap read_key_hash # {}

\* cleanup_committed_txns that also keeps the entries committed at max_read_tx
CleanupKeepEqual(cfg, guard, done_until) ==
    IF ~cfg.detect_conflicts THEN guard
    ELSE LET max_read_tx == IF cfg.managed_txns THEN guard.discard_ts ELSE done_until
             Keep(txn) == txn.ts >= max_read_tx
         IN  IF max_read_tx = guard.last_cleanup_ts THEN guard
             ELSE [guard EXCEPT !.last_cleanup_ts = max_read_tx,
                                !.committed_txns = SelectSeq(@, Keep)]

\* oracle.rs:127-148
cleanup_committed_txns(cfg, guard, done_until) ==
    IF ~cfg.detect_conflicts THEN guard
    ELSE LET max_read_tx == IF cfg.managed_txns THEN guard.discard_ts ELSE done_until
             Keep(txn) == txn.ts > max_read_tx
         IN  IF max_read_tx = guard.last_cleanup_ts THEN guard
             ELSE [guard EXCEPT !.last_cleanup_ts = max_read_tx,
                                !.committed_txns = SelectSeq(@, Keep)]

\* Oracle::done_read (not part of the sources): marks the read done once
DoneRead(m, txn) == IF txn.done_read THEN m ELSE MarkDone(m, txn.read_ts)

\* what a failed call leaves behind: nothing changes (oracle.rs:93-95)
Bail(guard, rm, tm, txn) ==
    [err |-> "Conflict", commit_ts |-> 0, inner |-> guard, read_mark |-> rm,
     txn_mark |-> tm, done_read |-> txn.done_read, lock |-> 0]

CommittedTxn(ts, conflict_keys) == [ts |-> ts, conflict_keys |-> conflict_keys]

\* get_latest_commit_ts that hands out next_txn_ts without advancing it
GetLatestCommitTsNoAdvance(cfg, guard, rm, tm, txn, read_key_hash, conflict_keys) ==
    IF HasConflict(guard.committed_txns, txn.read_ts, read_key_hash)
    THEN Bail(guard, rm, tm, txn)
    ELSE IF ~cfg.managed_txns
         THEN LET rm2 == DoneRead(rm, txn)
                  g2 == cleanup_committed_txns(cfg, guard, DoneUntil(rm2))
                  txn_ts == g2.next_txn_ts
              IN  [err |-> "Ok", commit_ts |-> txn_ts, inner |-> g2,
                   read_mark |-> rm2, txn_mark |-> MarkBegin(tm, txn_ts),
                   done_read |-> TRUE, lock |-> 0]
         ELSE [err |-> "Ok", commit_ts |-> txn.commit_ts,
               inner |-> [guard EXCEPT !.committed_txns =
                             Append(@, CommittedTxn(txn.commit_ts, conflict_keys))],
               read_mark |-> rm, txn_mark |-> tm,
               done_read |-> txn.done_read, lock |-> 0]

\* get_latest_commit_ts that records the transaction before it checks for a
\* conflict
GetLatestCommitTsRecordFirst(cfg, guard, rm, tm, txn, read_key_hash, conflict_keys) ==
    LET g1 == [guard EXCEPT !.committed_txns =
                  Append(@, CommittedTxn(txn.commit_ts, conflict_keys))]
    IN  IF HasConflict(guard.committed_txns, txn.read_ts, read_key_hash)
        THEN Bail(g1, rm, tm, txn)
        ELSE [err |-> "Ok", commit_ts |-> txn.commit_ts, inner |-> g1,
              read_mark |-> rm, txn_mark |-> tm,
              done_read |-> txn.done_read, lock |-> 0]

\* oracle.rs:83-125, the whole call under the inner mutex.  txn.commit_ts is
\* the timestamp a managed caller supplies.
get_latest_commit_ts(cfg, guard, rm, tm, txn, read_key_hash, conflict_keys) ==
    IF HasConflict(guard.committed_txns, txn.read_ts, read_key_hash)
    THEN Bail(guard, rm, tm, txn)
    ELSE IF ~cfg.managed_txns
         THEN LET rm2 == DoneRead(rm, txn)
                  g2 == cleanup_committed_txns(cfg, guard, DoneUntil(rm2))
                  txn_ts == g2.next_txn_ts
              IN  [err |-> "Ok", commit_ts |-> txn_ts,
                   inner |-> [g2 EXCEPT !.next_txn_ts = @ + 1],
                   read_mark |-> rm2, txn_mark |-> MarkBegin(tm, txn_ts),
                   done_read |-> TRUE, lock |-> 0]
         ELSE [err |-> "Ok", commit_ts |-> txn.commit_ts,
               inner |-> [guard EXCEPT !.committed_txns =
                             Append(@, CommittedTxn(txn.commit_ts, conflict_keys))],
               read_mark |-> rm, txn_mark |-> tm,
               done_read |-> txn.done_read, lock |-> 0]

\* the key hashes a transaction tracks (Txn is not part of the sources):
\* reads
\* and conflict keys are tracked only when conflict detection is on
ReadSets == IF config.detect_conflicts THEN SUBSET KeyHashes ELSE {{}}
WriteSets == IF config.detect_conflicts THEN SUBSET KeyHashes ELSE {{}}

\* some earlier successful commit above the snapshot wrote a key that was read
MustConflict(read_ts, read_key_hash) ==
    \E i \in 1..Len(commits) :
        /\ commits[i].ts > read_ts
        /\ commits[i].conflict_keys \cap read_key_hash # {}

\* a managed oracle records conflict keys (oracle.rs:120 unwraps them), so
\* it runs with conflict detection on
Configs ==
    {c \in [managed_txns : BOOLEAN, detect_conflicts : BOOLEAN] :
        c.managed_txns => c.detect_conflicts}

OracleInit(managed) ==
    /\ config \in Configs
    /\ config.managed_txns = managed
    /\ inner = NewOracleInner
    /\ inner_lock = 0
    /\ read_mark = NewWaterMark
    /\ txn_mark = NewWaterMark
    /\ txns = [t \in Txns |-> NewTxn]
    /\ commits = <<>>

\* get_latest_read_ts that takes next_txn_ts itself as the snapshot
GetLatestReadTsOffByOne(t) ==
    /\ ~config.managed_txns
    /\ txns[t].pc = "idle"
    /\ inner_lock = 0
    /\ LET read_ts == inner.next_txn_ts
       IN  /\ read_mark' = MarkBegin(read_mark, read_ts)
           /\ txns' = [txns EXCEPT ![t].pc = "wait", ![t].read_ts = read_ts]
    /\ inner_lock' = 0
    /\ UNCHANGED <<config, inner, txn_mark, commits, cl, manifest_vars, compact_vars, file_vars, storage_vars>>

\* get_latest_read_ts that keeps the mutex while it waits for txn_mark
GetLatestReadTsHoldingLock(t) ==
    /\ ~config.managed_txns
    /\ txns[t].pc = "idle"
    /\ inner_lock = 0
    /\ LET read_ts == inner.next_txn_ts - 1
       IN  /\ read_mark' = MarkBegin(read_mark, read_ts)
           /\ txns' = [txns EXCEPT ![t].pc = "wait", ![t].read_ts = read_ts]
    /\ inner_lock' = t
    /\ UNCHANGED <<config, inner, txn_mark, commits, cl, manifest_vars, compact_vars, file_vars, storage_vars>>

\* oracle.rs:70-77: the snapshot is taken and registered under the mutex
GetLatestReadTs(t) ==
    /\ ~config.managed_txns
    /\ txns[t].pc = "idle"
    /\ inner_lock = 0
    /\ LET read_ts == inner.next_txn_ts - 1
       IN  /\ read_mark' = MarkBegin(read_mark, read_ts)
           /\ txns' = [txns EXCEPT ![t].pc = "wait", ![t].read_ts = read_ts]
    /\ inner_lock' = 0
    /\ UNCHANGED <<config, inner, txn_mark, commits, cl, manifest_vars, compact_vars, file_vars, storage_vars>>

\* get_latest_read_ts that returns without waiting for txn_mark
GetLatestReadTsNoWait(t) ==
    /\ txns[t].pc = "wait"
    /\ txns' = [txns EXCEPT ![t].pc = "active"]
    /\ UNCHANGED <<config, inner, inner_lock, read_mark, txn_mark, commits, cl, manifest_vars, compact_vars, file_vars, storage_vars>>

\* oracle.rs:78-80: the call returns once txn_mark has reached the snapshot
GetLatestReadTsReturn(t) ==
    /\ txns[t].pc = "wait"
    /\ WaitForMarkReady(txn_mark, txns[t].read_ts)
    /\ txns' = [txns EXCEPT ![t].pc = "active"]
    /\ UNCHANGED <<config, inner, inner_lock, read_mark, txn_mark, commits, cl, manifest_vars, compact_vars, file_vars, storage_vars>>

\* a managed transaction is given its snapshot by the caller
NewTransactionAt(t) ==
    /\ config.managed_txns
    /\ txns[t].pc = "idle"
    /\ \E read_ts \in 0..MaxTs :
          txns' = [txns EXCEPT ![t].pc = "active", ![t].read_ts = read_ts]
    /\ UNCHANGED <<config, inner, inner_lock, read_mark, txn_mark, commits, cl, manifest_vars, compact_vars, file_vars, storage_vars>>

GetLatestCommitTs(t) ==
    /\ txns[t].pc = "active"
    /\ inner_lock = 0
    /\ ~config.managed_txns => inner.next_txn_ts <= MaxTs
    /\ \E read_key_hash \in ReadSets, conflict_keys \in WriteSets,
          user_ts \in IF config.managed_txns THEN 1..MaxTs ELSE {0} :
          LET txn == [txns[t] EXCEPT !.commit_ts = user_ts]
              r == get_latest_commit_ts(config, inner, read_mark, txn_mark, txn,
                                        read_key_hash, conflict_keys)
          IN  /\ config.managed_txns =>
                    \/ Len(inner.committed_txns) < MaxCommitted
                    \/ HasConflict(inner.committed_txns, txn.read_ts, read_key_hash)
              /\ inner' = r.inner
              /\ read_mark' = r.read_mark
              /\ txn_mark' = r.txn_mark
              /\ inner_lock' = r.lock
              /\ txns' = [txns EXCEPT ![t] =
                    [pc |-> IF r.err = "Ok" THEN "committing" ELSE "aborted",
                     read_ts |-> IF config.managed_txns THEN 0 ELSE txn.read_ts,
                     commit_ts |-> IF config.managed_txns THEN 0 ELSE r.commit_ts,
                     done_read |-> r.done_read,
                     must_conflict |-> MustConflict(txn.read_ts, read_key_hash)]]
              /\ commits' = IF r.err = "Ok"
                            THEN Append(commits, CommittedTxn(r.commit_ts, conflict_keys))
                            ELSE commits
    /\ UNCHANGED <<config, cl, manifest_vars, compact_vars, file_vars, storage_vars>>

\* the committer marks its timestamp done once its writes are applied
DoneCommit(t) ==
    /\ txns[t].pc = "committing"
    /\ txn_mark' = IF config.managed_txns THEN txn_mark
                   ELSE MarkDone(txn_mark, txns[t].commit_ts)
    /\ txns' = [txns EXCEPT ![t] = NewTxn]
    /\ UNCHANGED <<config, inner, inner_lock, read_mark, commits, cl, manifest_vars, compact_vars, file_vars, storage_vars>>

\* a transaction that does not commit, or whose commit failed, is discarded
Discard(t) ==
    /\ txns[t].pc \in {"active", "aborted"}
    /\ read_mark' = IF config.managed_txns THEN read_mark
                    ELSE DoneRead(read_mark, txns[t])
    /\ txns' = [txns EXCEPT ![t] = NewTxn]
    /\ UNCHANGED <<config, inner, inner_lock, txn_mark, commits, cl, manifest_vars, compact_vars, file_vars, storage_vars>>

CleanupIdle == cl = [pc |-> "off"]

\* no table is opened, built or read, and no value log or arena is in use
OpeningIdle == opening = [pc |-> "off"]
BlockIdle == block = [pc |-> "off"]
TableIterIdle == table_iter = [pc |-> "off"]
BuilderIdle == builder = [pc |-> "off"]
VlogIdle == vlog = [pc |-> "off"]
ArenaIdle == arena = [pc |-> "off"]
LocksIdle == table_locks = [pc |-> "off"]
StorageIdle ==
    /\ OpeningIdle
    /\ BlockIdle
    /\ TableIterIdle
    /\ BuilderIdle
    /\ VlogIdle
    /\ ArenaIdle
    /\ LocksIdle

\* revert_to_manifest has not run
NotCalled == [err |-> "not called", removed |-> {}]

\* no table file is reserved or looked for
FilesIdle ==
    /\ next_file_id = 0
    /\ reserved = <<>>
    /\ dir = {}
    /\ reverted = NotCalled

\* the levels controller is not built
CompactIdle ==
    /\ levels = <<>>
    /\ compact_status = [levels |-> <<>>, tables |-> {}]
    /\ compactors = <<>>
    /\ clock = [now |-> 0, discard_ts |-> 0]
    /\ closer = [captured |-> FALSE]

NoFile == [exists |-> FALSE, bytes |-> <<>>]
FileOf(bytes) == [exists |-> TRUE, bytes |-> bytes]

ManifestIdle ==
    /\ m_cfg = [external_magic_version |-> 0, read_only |-> FALSE]
    /\ m_file = NoFile
    /\ m_log = <<>>
    /\ m_torn = FALSE
    /\ m_res = [err |-> "not built", replayed |-> FALSE, torn |-> FALSE]

\* the oracle allocating the timestamps
OracleNext ==
    \E t \in Txns :
        \/ GetLatestReadTs(t)
        \/ GetLatestReadTsReturn(t)
        \/ GetLatestCommitTs(t)
        \/ DoneCommit(t)
        \/ Discard(t)

\* the oracle of a managed store: callers supply the timestamps
ManagedNext ==
    \E t \in Txns :
        \/ NewTransactionAt(t)
        \/ GetLatestCommitTs(t)
        \/ DoneCommit(t)
        \/ Discard(t)

InitOracle == OracleInit(FALSE) /\ CleanupIdle /\ ManifestIdle /\ CompactIdle /\ FilesIdle /\ StorageIdle
    /\ StorageIdle
SpecOracle == InitOracle /\ [][OracleNext]_vars

InitManaged == OracleInit(TRUE) /\ CleanupIdle /\ ManifestIdle /\ CompactIdle /\ FilesIdle /\ StorageIdle
    /\ StorageIdle
SpecManaged == InitManaged /\ [][ManagedNext]_vars

(***************************************************************************)
(* cleanup_committed_txns on its own: the oracle never fills the committed *)
(* list while it allocates the timestamps (oracle.rs:117), so the function *)
(* is applied to drawn states: a list in commit order whose timestamps are *)
(* above last_cleanup_ts, a read watermark at or above last_cleanup_ts     *)
(* (asserted at oracle.rs:136) and pending reads at or above the watermark.*)
(***************************************************************************)
DetectingConfig == [managed_txns |-> FALSE, detect_conflicts |-> TRUE]

Increasing(c) == \A i \in 1..(Len(c) - 1) : c[i].ts < c[i + 1].ts

CommittedLists ==
    LET Entries == [ts : 1..(MaxTs + 1), conflict_keys : (SUBSET KeyHashes) \ {{}}]
    IN  {c \in UNION {[1..n -> Entries] : n \in 0..MaxTs} : Increasing(c)}

CleanupInputs ==
    {i \in [last_cleanup_ts : 0..MaxTs, done_until : 0..MaxTs,
            committed_txns : CommittedLists, readers : SUBSET (0..MaxTs)] :
        /\ i.last_cleanup_ts <= i.done_until
        /\ \A k \in 1..Len(i.committed_txns) :
              i.committed_txns[k].ts > i.last_cleanup_ts
        /\ \A r \in i.readers : r >= i.done_until}

CleanupInit ==
    \E i \in CleanupInputs :
        cl = [pc |-> "drawn",
              guard |-> [NewOracleInner EXCEPT
                            !.next_txn_ts = MaxTs + 2,
                            !.last_cleanup_ts = i.last_cleanup_ts,
                            !.committed_txns = i.committed_txns],
              done_until |-> i.done_until,
              readers |-> i.readers,
              before |-> i.committed_txns]

ApplyCleanup ==
    /\ cl.pc = "drawn"
    /\ cl' = [cl EXCEPT !.pc = "cleaned",
                        !.guard = cleanup_committed_txns(config, cl.guard, cl.done_until)]
    /\ UNCHANGED <<oracle_vars, manifest_vars, compact_vars, file_vars, storage_vars>>

InitCleanup ==
    /\ OracleInit(FALSE)
    /\ config = DetectingConfig
    /\ CleanupInit
    /\ ManifestIdle
    /\ CompactIdle
    /\ FilesIdle
    /\ StorageIdle
SpecCleanup == InitCleanup /\ [][ApplyCleanup]_vars

(***************************************************************************)
(* Claims about the oracle                                                 *)
(***************************************************************************)
Committing(t) == txns[t].pc = "committing"
Aborted(t) == txns[t].pc = "aborted"

\* C1: a commit fails with Conflict exactly when some transaction that
\* committed above the caller's snapshot wrote a key the caller read, also
\* when the oracle allocates the timestamps.
C1_ConflictIffReadKeyCommitted ==
    \A t \in Txns :
        /\ Committing(t) => ~txns[t].must_conflict
        /\ Aborted(t) => txns[t].must_conflict

\* C7: a reader that has returned from get_latest_read_ts with snapshot r
\* finds txn_mark at or beyond r, and no commit with a timestamp at or
\* below r is still pending.
C7_SnapshotWaitsForCommits ==
    \A t \in Txns :
        txns[t].pc = "active" =>
            /\ DoneUntil(txn_mark) >= txns[t].read_ts
            /\ \A u \in Txns : Committing(u) => txns[u].commit_ts > txns[t].read_ts

\* a reader is held back while a commit at or below its snapshot is pending
C7_Witness ==
    \E t, u \in Txns :
        /\ txns[t].pc = "wait"
        /\ Committing(u)
        /\ txns[u].commit_ts <= txns[t].read_ts

C8_Step ==
    \A t \in Txns :
        (txns[t].pc = "active" /\ txns'[t].pc = "committing") =>
            /\ txns'[t].commit_ts = inner.next_txn_ts
            /\ inner'.next_txn_ts = inner.next_txn_ts + 1
            /\ txn_mark'.pending[txns'[t].commit_ts] > 0
            /\ inner_lock' = 0
            /\ \A i \in 1..Len(commits) : commits[i].ts < txns'[t].commit_ts
            /\ \A i \in 1..Len(commits') : commits'[i].ts < inner'.next_txn_ts

\* C8: a successful get_latest_commit_ts returns the next_txn_ts it found,
\* advances it by one and leaves the timestamp pending in txn_mark with the
\* mutex released; the timestamp is above every timestamp issued before and
\* every issued timestamp is below next_txn_ts.
C8_CommitTsAllocation == [][C8_Step]_vars

\* two commits are in flight at once, with the timestamps issued to them
C8_Witness ==
    \E t, u \in Txns :
        /\ t # u
        /\ Committing(t) /\ Committing(u)
        /\ Len(commits) >= 2

C9_Step ==
    \A t \in Txns :
        (txns[t].pc = "active" /\ txns'[t].pc = "aborted") =>
            /\ inner'.next_txn_ts = inner.next_txn_ts
            /\ inner'.last_cleanup_ts = inner.last_cleanup_ts
            /\ inner'.committed_txns = inner.committed_txns
            /\ txn_mark'.pending = txn_mark.pending
            /\ inner_lock' = 0

\* C9: a get_latest_commit_ts that fails with Conflict leaves next_txn_ts,
\* last_cleanup_ts, the committed list and the pending commit timestamps as
\* they were, with the mutex released.
C9_ConflictChangesNothing == [][C9_Step]_vars

\* a commit has failed with Conflict against a recorded commit
C9_Witness ==
    \E t \in Txns : Aborted(t) /\ Len(inner.committed_txns) > 0

Entries(c) == {c[i] : i \in 1..Len(c)}

\* C10: after cleanup_committed_txns the committed list holds exactly the
\* earlier entries committed above read_mark.done_until(), in their order,
\* last_cleanup_ts equals that watermark, and every entry committed above
\* the snapshot of a pending read is still in the list.
C10_CleanupKeepsNewerThanWatermark ==
    cl.pc = "cleaned" =>
        LET Newer(txn) == txn.ts > cl.done_until
        IN  /\ cl.guard.committed_txns = SelectSeq(cl.before, Newer)
            /\ cl.guard.last_cleanup_ts = cl.done_until
            /\ \A r \in cl.readers : \A e \in Entries(cl.before) :
                  e.ts > r => e \in Entries(cl.guard.committed_txns)

\* a cleanup has dropped an entry and kept one that a pending read needs
C10_Witness ==
    /\ cl.pc = "cleaned"
    /\ Len(cl.guard.committed_txns) < Len(cl.before)
    /\ \E r \in cl.readers : \E e \in Entries(cl.guard.committed_txns) : e.ts > r

(***************************************************************************)
(* Manifest (src/manifest.rs)                                              *)
(***************************************************************************)
MaxChanges == 2     \* changes appended to one manifest file
MaxLevel == 1       \* levels a create change names: 0..MaxLevel

TableIds == 1..MaxChanges
Levels == 0..MaxLevel

BADGER_MAGIC_VERSION == 8
MAGIC_TEXT == <<66, 100, 103, 114>>     \* b"Bdgr"

Min(a, b) == IF a <= b THEN a ELSE b

\* BufMut::put_u16 / put_u32 and Buf::get_u16 / get_u32: big endian
PutU16(n) == <<(n \div 256) % 256, n % 256>>
PutU32(n) == <<(n \div 16777216) % 256, (n \div 65536) % 256, (n \div 256) % 256, n % 256>>
GetU16(buf) == buf[1] * 256 + buf[2]
GetU32(buf) == buf[1] * 16777216 + buf[2] * 65536 + buf[3] * 256 + buf[4]

\* the rest of a slice after n bytes were taken from it
Advance(buf, n) == SubSeq(buf, n + 1, Len(buf))

\* crc32fast::hash, as a position-weighted checksum of the payload
RECURSIVE WeightedSum(_, _)
WeightedSum(buf, i) ==
    IF i > Len(buf) THEN 0 ELSE i * (buf[i] + 1) + WeightedSum(buf, i + 1)
Crc32(buf) == WeightedSum(buf, 1) % 65521

\* ManifestChange: new_create_change(id, level, ..) and the delete change,
\* which names the id only and carries level 0
CreateChange(id, level) == [op |-> "Create", id |-> id, level |-> level]
DeleteChange(id) == [op |-> "Delete", id |-> id, level |-> 0]

\* ManifestChangeSet::encode_to_vec / decode: three bytes a change
EncodeChange(change) ==
    <<IF change.op = "Create" THEN 0 ELSE 1, change.id, change.level>>
RECURSIVE EncodeSet(_)
EncodeSet(changes) ==
    IF changes = <<>> THEN <<>>
    ELSE EncodeChange(Head(changes)) \o EncodeSet(Tail(changes))
DecodeOk(buf) == Len(buf) % 3 = 0
DecodeSet(buf) ==
    [k \in 1..(Len(buf) \div 3) |->
        [op |-> IF buf[3 * k - 2] = 1 THEN "Delete" ELSE "Create",
         id |-> buf[3 * k - 1], level |-> buf[3 * k]]]

\* one record of the file: {length:u32, crc32:u32, payload} (manifest.rs:140-145)
Record(changes) ==
    LET change_set_buf == EncodeSet(changes)
    IN  PutU32(Len(change_set_buf)) \o PutU32(Crc32(change_set_buf)) \o change_set_buf

\* the 8 magic bytes (manifest.rs:130-133)
MagicBytes(text, external_magic_version, badger_magic_version) ==
    text \o PutU16(external_magic_version) \o PutU16(badger_magic_version)

\* Manifest::default()
NewManifest == [levels |-> <<>>, tables |-> <<>>, creations |-> 0, deletions |-> 0]

TableManifest(level) == [level |-> level]

\* manifest.rs:233-245: one create change a table (taken in id order)
RECURSIVE ChangesOf(_, _)
ChangesOf(tables, ids) ==
    IF ids = {} THEN <<>>
    ELSE LET id == CHOOSE x \in ids : \A y \in ids : x <= y
         IN  <<CreateChange(id, tables[id].level)>> \o ChangesOf(tables, ids \ {id})
as_changes(manifest) == ChangesOf(manifest.tables, DOMAIN manifest.tables)

\* manifest.rs:252-282.  err is "none", the error returned, or "panic" for an
\* index past the end of levels.
apply_manifest_change(manifest, change) ==
    IF change.op = "Create"
    THEN IF change.id \in DOMAIN manifest.tables
         THEN [err |-> "table exists", manifest |-> manifest]
         ELSE LET tables == [x \in DOMAIN manifest.tables \cup {change.id} |->
                                IF x = change.id THEN TableManifest(change.level)
                                ELSE manifest.tables[x]]
                  pushed == IF Len(manifest.levels) <= change.level
                            THEN Append(manifest.levels, {})
                            ELSE manifest.levels
              IN  IF change.level + 1 > Len(pushed)
                  THEN [err |-> "panic", manifest |-> manifest]
                  ELSE [err |-> "none",
                        manifest |-> [manifest EXCEPT
                            !.tables = tables,
                            !.levels = [pushed EXCEPT ![change.level + 1] = @ \cup {change.id}],
                            !.creations = @ + 1]]
    ELSE IF change.id \notin DOMAIN manifest.tables
         THEN [err |-> "removes non-existing table", manifest |-> manifest]
         ELSE IF change.level + 1 > Len(manifest.levels)
              THEN [err |-> "panic", manifest |-> manifest]
              ELSE [err |-> "none",
                    manifest |-> [manifest EXCEPT
                        !.levels[change.level + 1] = @ \ {change.id},
                        !.tables = [x \in DOMAIN manifest.tables \ {change.id} |->
                                       manifest.tables[x]],
                        !.deletions = @ + 1]]

\* manifest.rs:246-251
RECURSIVE apply_change_set(_, _)
apply_change_set(manifest, changes) ==
    IF changes = <<>> THEN [err |-> "none", manifest |-> manifest]
    ELSE LET r == apply_manifest_change(manifest, Head(changes))
         IN  IF r.err # "none" THEN r
             ELSE apply_change_set(r.manifest, Tail(changes))

Failed(err) == [err |-> err, manifest |-> NewManifest, offset |-> 0]

\* manifest.rs:191-230: the records after the magic bytes; the reader stands
\* at offset
RECURSIVE ReplayRecords(_, _, _)
ReplayRecords(file, offset, manifest) ==
    LET fp_size == Len(file)
        rest == Advance(file, offset)
    IN  IF Len(rest) < 8
        THEN [err |-> "none", manifest |-> manifest, offset |-> offset]
        ELSE LET change_len == GetU32(rest)
                 crc == GetU32(Advance(rest, 4))
                 body == Advance(rest, 8)
             IN  IF offset + change_len > fp_size
                 THEN Failed("buffer len too greater")
                 ELSE IF Len(body) < change_len
                 THEN [err |-> "none", manifest |-> manifest, offset |-> offset]
                 ELSE LET change_set_buf == SubSeq(body, 1, change_len)
                      IN  IF Crc32(change_set_buf) # crc
                          THEN Failed("checksum mismatch")
                          ELSE IF ~DecodeOk(change_set_buf)
                          THEN Failed("decode")
                          ELSE LET r == apply_change_set(manifest, DecodeSet(change_set_buf))
                               IN  IF r.err # "none" THEN Failed(r.err)
                                   ELSE ReplayRecords(file, offset + 8 + change_len,
                                                      r.manifest)

\* manifest.rs:165-231.  Both versions are read from a fresh view of
\* magic_buf (`magic_buf.as_ref().get_u16()`, lines 176-177), that is from
\* its first two bytes.
replay_manifest_file(file, ext_magic) ==
    LET n == Min(8, Len(file))
        magic_buf == [i \in 1..8 |-> IF i <= n THEN file[i] ELSE 0]
        ext_version == GetU16(magic_buf)
        version == GetU16(magic_buf)
    IN  IF SubSeq(magic_buf, 1, 4) # MAGIC_TEXT THEN Failed("bad magic")
        ELSE IF version # BADGER_MAGIC_VERSION THEN Failed("unsupported version")
        ELSE IF ext_version # ext_magic THEN Failed("external magic mismatch")
        ELSE ReplayRecords(file, n, NewManifest)

\* manifest.rs:116-159: the file that replaces MANIFEST
help_rewrite(cfg, manifest) ==
    MagicBytes(MAGIC_TEXT, cfg.external_magic_version, BADGER_MAGIC_VERSION)
        \o Record(as_changes(manifest))

\* a manifest file found at start: none, or one written for an empty
\* manifest with some magic text, external version and format version
FoundFiles ==
    {NoFile} \cup
    {FileOf(MagicBytes(text, e, v) \o Record(<<>>)) :
        text \in {MAGIC_TEXT, <<66, 100, 103, 120>>},
        e \in {0, 1},
        v \in {BADGER_MAGIC_VERSION, BADGER_MAGIC_VERSION - 1}}

NotBuilt == [err |-> "not built", replayed |-> FALSE, torn |-> FALSE]

ManifestInit ==
    /\ m_cfg \in [external_magic_version : {0, 1}, read_only : BOOLEAN]
    /\ m_file \in FoundFiles
    /\ m_log = <<>>
    /\ m_torn = FALSE
    /\ m_res = NotBuilt

\* manifest.rs:74-115
Build ==
    /\ m_res.err = "not built"
    /\ IF ~m_file.exists
       THEN IF m_cfg.read_only
            THEN /\ m_res' = [err |-> "no manifest found", replayed |-> FALSE,
                              torn |-> FALSE]
                 /\ UNCHANGED <<m_file, m_torn>>
            ELSE /\ m_file' = FileOf(help_rewrite(m_cfg, NewManifest))
                 /\ m_res' = [err |-> "none", manifest |-> NewManifest,
                              replayed |-> FALSE, torn |-> FALSE]
                 /\ UNCHANGED m_torn
       ELSE LET r == replay_manifest_file(m_file.bytes, m_cfg.external_magic_version)
                truncate == r.err = "none" /\ ~m_cfg.read_only
            IN  /\ m_res' = [err |-> r.err, manifest |-> r.manifest,
                             offset |-> r.offset, replayed |-> TRUE, torn |-> m_torn]
                /\ m_file' = IF truncate THEN FileOf(SubSeq(m_file.bytes, 1, r.offset))
                                        ELSE m_file
                /\ m_torn' = IF truncate THEN FALSE ELSE m_torn
    /\ UNCHANGED <<m_cfg, m_log, oracle_vars, cl, compact_vars, file_vars, storage_vars>>

\* the ids created and the ids deleted by a sequence of changes
Created(log) == {log[i].id : i \in {j \in 1..Len(log) : log[j].op = "Create"}}
Deleted(log) == {log[i].id : i \in {j \in 1..Len(log) : log[j].op = "Delete"}}

\* the changes the store may append next: a create of a new id, or a delete
\* of a live one
NextChanges ==
    {CreateChange(id, level) : id \in TableIds \ Created(m_log), level \in Levels}
    \cup {DeleteChange(id) : id \in Created(m_log) \ Deleted(m_log)}

\* the store appends one change-set record to the open file (the writer is
\* not part of the sources; the record is laid out as in help_rewrite)
AppendRecord ==
    /\ m_res.err = "none"
    /\ ~m_cfg.read_only
    /\ Len(m_log) < MaxChanges
    /\ \E change \in NextChanges :
          /\ m_file' = FileOf(m_file.bytes \o Record(<<change>>))
          /\ m_log' = Append(m_log, change)
    /\ UNCHANGED <<m_cfg, m_torn, m_res, oracle_vars, cl, compact_vars, file_vars, storage_vars>>

\* the records a stopped process may have been writing: one change, or the
\* change set of a compaction (three tables)
TornRecords ==
    {Record(<<change>>) : change \in NextChanges}
    \cup {Record([i \in 1..3 |-> CreateChange(MaxChanges + i, 0)])}

\* the process stops while appending: only a prefix of the record is written.
\* The next open may be read-only.
TornAppend ==
    /\ m_res.err = "none"
    /\ ~m_cfg.read_only
    /\ \E record \in TornRecords :
          \E k \in 1..(Len(record) - 1) :
              m_file' = FileOf(m_file.bytes \o SubSeq(record, 1, k))
    /\ m_torn' = TRUE
    /\ m_res' = NotBuilt
    /\ \E read_only \in BOOLEAN : m_cfg' = [m_cfg EXCEPT !.read_only = read_only]
    /\ UNCHANGED <<m_log, oracle_vars, cl, compact_vars, file_vars, storage_vars>>

\* the process ends; the store can be opened again, read-only or not
Close ==
    /\ m_res.err # "not built"
    /\ m_res' = NotBuilt
    /\ \E read_only \in BOOLEAN : m_cfg' = [m_cfg EXCEPT !.read_only = read_only]
    /\ UNCHANGED <<m_file, m_log, m_torn, oracle_vars, cl, compact_vars, file_vars, storage_vars>>

ManifestNext == Build \/ AppendRecord \/ TornAppend \/ Close

InitManifest ==
    /\ OracleInit(FALSE)
    /\ config = DetectingConfig
    /\ CleanupIdle
    /\ ManifestInit
    /\ CompactIdle
    /\ FilesIdle
    /\ StorageIdle
SpecManifest == InitManifest /\ [][ManifestNext]_vars

(***************************************************************************)
(* Claims about the manifest                                               *)
(***************************************************************************)
\* the magic bytes the format asks for: "Bdgr", the configured external
\* version, the format version
HeaderAccepted(file, cfg) ==
    /\ Len(file) >= 8
    /\ SubSeq(file, 1, 4) = MAGIC_TEXT
    /\ GetU16(SubSeq(file, 5, 6)) = cfg.external_magic_version
    /\ GetU16(SubSeq(file, 7, 8)) = BADGER_MAGIC_VERSION

HeaderError(err) ==
    err \in {"bad magic", "unsupported version", "external magic mismatch"}

CreatesThenDeletes(log) ==
    \A i, j \in 1..Len(log) :
        (log[i].op = "Delete" /\ log[j].op = "Create") => j < i

\* C5: replaying a file of valid records, N creates followed by M deletes
\* of created ids, that ends with a partial record returns without error
\* the manifest whose live tables are the N - M created and not deleted ids.
C5_ReplayIgnoresPartialTail ==
    (/\ m_res.replayed
     /\ m_res.torn
     /\ HeaderAccepted(m_file.bytes, m_cfg)
     /\ Len(m_log) >= 1
     /\ CreatesThenDeletes(m_log))
    => /\ m_res.err = "none"
       /\ DOMAIN m_res.manifest.tables = Created(m_log) \ Deleted(m_log)
       /\ Cardinality(DOMAIN m_res.manifest.tables)
             = Cardinality(Created(m_log)) - Cardinality(Deleted(m_log))

\* C6: replay rejects the magic bytes of a file exactly when they are not
\* "Bdgr", the configured external version and format version 8; the file
\* help_rewrite wrote is accepted when reopened with the same configuration.
C6_MagicAcceptedExactly ==
    m_res.replayed =>
        (HeaderError(m_res.err) <=> ~HeaderAccepted(m_file.bytes, m_cfg))

(***************************************************************************)
(* Levels controller (src/level/levels.rs).  KeyRange, CompactStatus       *)
(* (level/compaction.rs), LevelHandler (level/level_handler.rs) and        *)
(* Options are used by levels.rs but are not part of the source tree;      *)
(* they are modelled from the specification.                               *)
(***************************************************************************)

\* Options
max_levels == 3
num_compactors == 2
base_level_size == 1
level_size_multiplier == 2
base_table_size == 2
table_size_multiplier == 2

\* fixed thresholds of the fill functions
L0_TO_L0_MIN_TABLES == 4        \* out.len() < 4
L0_TO_L0_MIN_AGE == 10          \* Duration::from_secs(10)
LMAX_MIN_AGE == 3600            \* Duration::from_secs(60 * 60)
LMAX_MIN_STALE == 1             \* 10 << 20 bytes; sizes are counted in units of 10 MiB
U32_MAX == 1000000              \* u32::MAX as usize, in the same unit: above every size

MaxLowerTables == 2     \* tables below level 0

UserKeys == {0, 1}
Compactors == 0..(num_compactors - 1)
\* the smallest store where level 0 to level 0 can run beside level 0 to base
MaxTables == L0_TO_L0_MIN_TABLES + 1

\* A versioned key is user key + timestamp, ordered by user key ascending and
\* timestamp descending.  key_with_ts(k, u64::MAX) sorts before every version
\* of k and key_with_ts(k, 0) after every version of k: they are encoded as
\* 2k and 2k + 1.  NoKey is the empty byte string.
NoKey == 0 - 1
KeyWithTsMax(k) == 2 * k
KeyWithTs0(k) == 2 * k + 1

\* ---- KeyRange
KeyRange(left, right, inf) == [left |-> left, right |-> right, inf |-> inf]
DefaultKeyRange == KeyRange(NoKey, NoKey, FALSE)
DefaultWithInf == KeyRange(NoKey, NoKey, TRUE)
IsEmpty(r) == r.left = NoKey /\ r.right = NoKey /\ ~r.inf

\* KeyRange::is_overlaps_with: an empty range overlaps everything, nothing
\* overlaps an empty destination, an infinite range overlaps everything else
RangeOverlaps(r, dst) ==
    IF IsEmpty(r) THEN TRUE
    ELSE IF IsEmpty(dst) THEN FALSE
    ELSE IF r.inf \/ dst.inf THEN TRUE
    ELSE IF r.left > dst.right THEN FALSE
    ELSE IF r.right < dst.left THEN FALSE
    ELSE TRUE

\* KeyRange::extend
Extend(r, kr) ==
    IF IsEmpty(kr) THEN r
    ELSE IF IsEmpty(r) THEN kr
    ELSE KeyRange(IF r.left = NoKey \/ kr.left < r.left THEN kr.left ELSE r.left,
                  IF r.right = NoKey \/ kr.right > r.right THEN kr.right ELSE r.right,
                  r.inf \/ kr.inf)

\* KeyRange::from_table
FromTable(table) ==
    KeyRange(KeyWithTsMax(table.smallest), KeyWithTs0(table.biggest), FALSE)

MinOf(S) == CHOOSE x \in S : \A y \in S : x <= y

\* KeyRange::from_tables: None for no table, else smallest to biggest
FromTables(tables) ==
    LET ix == 1..Len(tables) IN
    KeyRange(KeyWithTsMax(MinOf({tables[i].smallest : i \in ix})),
             KeyWithTs0(Max({tables[i].biggest : i \in ix})), FALSE)

Ids(tables) == {tables[i].id : i \in 1..Len(tables)}

\* ---- CompactStatus
NewCompactStatus == [levels |-> [l \in 1..max_levels |-> <<>>], tables |-> {}]

\* CompactStatus::is_overlaps_with; level l is kept at index l + 1
StatusOverlaps(cs, level, range) ==
    \E i \in 1..Len(cs.levels[level + 1]) : RangeOverlaps(cs.levels[level + 1][i], range)

PushRange(cs, level, range) ==
    [cs EXCEPT !.levels[level + 1] = Append(@, range)]

\* compare_and_add that tests this_range only
CompareAndAddThisOnly(cs, cd) ==
    IF StatusOverlaps(cs, cd.this_level, cd.this_range)
    THEN [ok |-> FALSE, cs |-> cs]
    ELSE [ok |-> TRUE,
          cs |-> [PushRange(PushRange(cs, cd.this_level, cd.this_range),
                            cd.next_level, cd.next_range)
                  EXCEPT !.tables = @ \cup Ids(cd.top) \cup Ids(cd.bottom)]]

\* CompactStatus::compare_and_add: under the write lock, refuse when this_range
\* collides at this level or next_range at the next level, else register both
\* ranges and the ids of top and bottom
compare_and_add(cs, cd) ==
    IF \/ StatusOverlaps(cs, cd.this_level, cd.this_range)
       \/ StatusOverlaps(cs, cd.next_level, cd.next_range)
    THEN [ok |-> FALSE, cs |-> cs]
    ELSE [ok |-> TRUE,
          cs |-> [PushRange(PushRange(cs, cd.this_level, cd.this_range),
                            cd.next_level, cd.next_range)
                  EXCEPT !.tables = @ \cup Ids(cd.top) \cup Ids(cd.bottom)]]

\* ---- LevelHandler
Tables(level) == levels[level + 1]

RECURSIVE SumSizes(_, _)
SumSizes(tables, n) == IF n = 0 THEN 0 ELSE tables[n].size + SumSizes(tables, n - 1)
get_total_size(level) == SumSizes(Tables(level), Len(Tables(level)))

\* sort.Search: the first index in 1..n + 1 from which P holds
FirstFrom(n, P(_)) ==
    IF \E i \in 1..n : P(i) THEN MinOf({i \in 1..n : P(i)}) ELSE n + 1

\* LevelHandler::overlapping_tables: the half-open index span of the tables
\* whose key range meets the range
overlapping_tables(level, range) ==
    IF range.left = NoKey \/ range.right = NoKey
    THEN [left |-> 1, right |-> 1]
    ELSE LET tables == Tables(level)
             LeftOk(i) == range.left <= KeyWithTs0(tables[i].biggest)
             RightOk(i) == range.right < KeyWithTsMax(tables[i].smallest)
         IN [left |-> FirstFrom(Len(tables), LeftOk),
             right |-> FirstFrom(Len(tables), RightOk)]

Slice(seq, left, right) == SubSeq(seq, left, right - 1)

\* ---- Targets (level_targets)
memtable_size == 2

RECURSIVE TargetSizesShallowest(_, _, _)
\* a loop that takes the shallowest level at the floor as the base level
TargetSizesShallowest(i, level_size, targets) ==
    IF i < 1 THEN targets
    ELSE TargetSizesShallowest(i - 1, level_size \div level_size_multiplier,
             [targets EXCEPT
                 !.target_size[i + 1] = Max({level_size, base_level_size}),
                 !.base_level = IF level_size <= base_level_size THEN i ELSE @])

RECURSIVE TargetSizes(_, _, _)
\* for i in (1..levels_len).rev()
TargetSizes(i, level_size, targets) ==
    IF i < 1 THEN targets
    ELSE TargetSizes(i - 1, level_size \div level_size_multiplier,
             [targets EXCEPT
                 !.target_size[i + 1] = Max({level_size, base_level_size}),
                 !.base_level = IF @ = 0 /\ level_size <= base_level_size THEN i ELSE @])

\* file sizes that are the base table size at every level below level 0
FileSizesFlat(i, table_size, targets) ==
    [targets EXCEPT !.file_size = [l \in 1..max_levels |->
                                      IF l = 1 THEN memtable_size ELSE table_size]]

RECURSIVE FileSizes(_, _, _)
\* for i in 0..levels_len
FileSizes(i, table_size, targets) ==
    IF i >= max_levels THEN targets
    ELSE IF i = 0
    THEN FileSizes(1, table_size, [targets EXCEPT !.file_size[1] = memtable_size])
    ELSE IF i <= targets.base_level
    THEN FileSizes(i + 1, table_size, [targets EXCEPT !.file_size[i + 1] = table_size])
    ELSE FileSizes(i + 1, table_size * table_size_multiplier,
                   [targets EXCEPT !.file_size[i + 1] = table_size * table_size_multiplier])

RECURSIVE SkipEmptyLevels(_, _, _)
\* for i in targets.base_level + 1..levels_len - 1
SkipEmptyLevels(i, end, base_level) ==
    IF i >= end THEN base_level
    ELSE IF get_total_size(i) > 0 THEN base_level
    ELSE SkipEmptyLevels(i + 1, end, i)

level_targets ==
    LET zero == [l \in 1..max_levels |-> 0]
        t0 == [base_level |-> 0, target_size |-> zero, file_size |-> zero]
        t1 == TargetSizes(max_levels - 1, get_total_size(max_levels - 1), t0)
        t2 == FileSizes(0, base_table_size, t1)
        base1 == SkipEmptyLevels(t2.base_level + 1, max_levels - 1, t2.base_level)
        base2 == IF /\ base1 < max_levels - 1
                    /\ get_total_size(base1) = 0
                    /\ get_total_size(base1 + 1) < t2.target_size[base1 + 2]
                 THEN base1 + 1
                 ELSE base1
    IN [t2 EXCEPT !.base_level = base2]

\* ---- CompactDef, as do_compact builds it
NewCompactDef(task_id, priority_level, targets, this_level, next_level) ==
    [compactor_id |-> task_id,
     priority |-> [level |-> priority_level, targets |-> targets],
     this_level |-> this_level,
     next_level |-> next_level,
     top |-> <<>>,
     bottom |-> <<>>,
     this_range |-> DefaultKeyRange,
     next_range |-> DefaultKeyRange,
     splits |-> <<>>,
     this_size |-> 0]

\* what a fill function returns: its bool, and the CompactDef and the
\* CompactStatus as it leaves them
Filled(ret, cd, cs) == [ret |-> ret, cd |-> cd, cs |-> cs]
Added(cd, cs) ==
    LET r == compare_and_add(cs, cd)
    IN Filled(IF r.ok THEN "true" ELSE "false", cd, r.cs)

\* a chain that stops after the first table
ChainTopFirstOnly(tables, i, key_range, top) == <<tables[1]>>

RECURSIVE ChainTop(_, _, _, _)
\* the level-0 tables whose ranges chain-overlap, starting from the first
ChainTop(tables, i, key_range, top) ==
    IF i > Len(tables) THEN top
    ELSE IF RangeOverlaps(key_range, FromTable(tables[i]))
    THEN ChainTop(tables, i + 1, Extend(key_range, FromTable(tables[i])),
                  Append(top, tables[i]))
    ELSE top

\* priority.adjusted is 0.0 and drop_prefixes is empty in every priority
\* run_compact builds
fill_tables_level0_to_levelbase(cd, cs) ==
    IF cd.next_level = 0 THEN Filled("panic", cd, cs)
    ELSE IF Len(Tables(cd.this_level)) = 0 THEN Filled("false", cd, cs)
    ELSE LET top == ChainTop(Tables(cd.this_level), 1, DefaultKeyRange, <<>>)
             this_range == FromTables(top)
             span == overlapping_tables(cd.next_level, this_range)
             bottom == Slice(Tables(cd.next_level), span.left, span.right)
             next_range == IF Len(bottom) = 0 THEN this_range ELSE FromTables(bottom)
         IN Added([cd EXCEPT !.this_range = this_range, !.top = top,
                             !.bottom = bottom, !.next_range = next_range], cs)

\* fill_tables_level0_to_level0 that any compactor may run
FillLevel0ToLevel0AnyCompactor(cd, cs) ==
    LET cd1 == [cd EXCEPT !.next_level = 0, !.next_range = DefaultKeyRange,
                          !.bottom = <<>>]
        Picked(table) ==
            /\ ~(table.size >= cd.priority.targets.file_size[1])
            /\ ~(clock.now - table.created_at < L0_TO_L0_MIN_AGE)
            /\ ~(table.id \in cs.tables)
        out == SelectSeq(Tables(cd.this_level), Picked)
    IN IF Len(out) < L0_TO_L0_MIN_TABLES THEN Filled("false", cd1, cs)
       ELSE Filled("true",
                   [cd1 EXCEPT !.this_range = DefaultWithInf, !.top = out,
                               !.priority.targets.file_size[1] = U32_MAX],
                   [PushRange(cs, cd.this_level, DefaultWithInf)
                    EXCEPT !.tables = @ \cup Ids(out)])

\* fill_tables_level0_to_level0 that registers the range before it counts
\* the tables it picked
FillLevel0ToLevel0RegisterFirst(cd, cs) ==
    IF cd.compactor_id # 0 THEN Filled("false", cd, cs)
    ELSE LET cd1 == [cd EXCEPT !.next_level = 0, !.next_range = DefaultKeyRange,
                               !.bottom = <<>>]
             Picked(table) ==
                 /\ ~(table.size >= cd.priority.targets.file_size[1])
                 /\ ~(clock.now - table.created_at < L0_TO_L0_MIN_AGE)
                 /\ ~(table.id \in cs.tables)
             out == SelectSeq(Tables(cd.this_level), Picked)
             pushed == PushRange(cs, cd.this_level, DefaultWithInf)
         IN IF Len(out) < L0_TO_L0_MIN_TABLES THEN Filled("false", cd1, pushed)
            ELSE Filled("true",
                        [cd1 EXCEPT !.this_range = DefaultWithInf, !.top = out,
                                    !.priority.targets.file_size[1] = U32_MAX],
                        [pushed EXCEPT !.tables = @ \cup Ids(out)])

fill_tables_level0_to_level0(cd, cs) ==
    IF cd.compactor_id # 0 THEN Filled("false", cd, cs)
    ELSE LET cd1 == [cd EXCEPT !.next_level = 0, !.next_range = DefaultKeyRange,
                               !.bottom = <<>>]
             Picked(table) ==
                 /\ ~(table.size >= cd.priority.targets.file_size[1])
                 /\ ~(clock.now - table.created_at < L0_TO_L0_MIN_AGE)
                 /\ ~(table.id \in cs.tables)
             out == SelectSeq(Tables(cd.this_level), Picked)
         IN IF Len(out) < L0_TO_L0_MIN_TABLES THEN Filled("false", cd1, cs)
            ELSE Filled("true",
                        [cd1 EXCEPT !.this_range = DefaultWithInf, !.top = out,
                                    !.priority.targets.file_size[1] = U32_MAX],
                        [PushRange(cs, cd.this_level, DefaultWithInf)
                         EXCEPT !.tables = @ \cup Ids(out)])

fill_tables_level0(cd, cs) ==
    LET r == fill_tables_level0_to_levelbase(cd, cs)
    IN IF r.ret = "false" THEN fill_tables_level0_to_level0(r.cd, r.cs) ELSE r

\* the orders sort_unstable_by may leave the tables in: every permutation
\* that puts no table after one it must precede
SortedOrders(tables, Before(_, _)) ==
    LET n == Len(tables)
        perms == {p \in Permutations(1..n) :
                     \A i, j \in 1..n : i < j => ~Before(tables[p[j]], tables[p[i]])}
    IN {[i \in 1..n |-> tables[p[i]]] : p \in perms}

\* the order that puts the newest table first
ByVersionDesc(a, b) == a.max_version > b.max_version
\* the order that puts the table of least stale data first
ByStaleAsc(a, b) == a.stale_data_size < b.stale_data_size
ByStaleDesc(a, b) == a.stale_data_size > b.stale_data_size
ByVersionAsc(a, b) == a.max_version < b.max_version

RECURSIVE CollectBottom(_, _, _, _, _)
\* the tables following the chosen one, while the total stays below the
\* target file size
CollectBottom(tables, j, total_size, need_file_size, cd) ==
    IF j > Len(tables) THEN cd
    ELSE IF total_size + tables[j].size >= need_file_size THEN cd
    ELSE CollectBottom(tables, j + 1, total_size + tables[j].size, need_file_size,
             [cd EXCEPT !.bottom = Append(@, tables[j]),
                        !.next_range = Extend(@, FromTable(tables[j]))])

\* after the loop of try_fill_max_level_tables
MaxLevelDone(cd, cs) ==
    IF Len(cd.top) = 0 THEN Filled("false", cd, cs) ELSE Added(cd, cs)

RECURSIVE MaxLevelLoop(_, _, _, _, _)
\* for table in sorted_tables
MaxLevelLoop(tables, sorted_tables, i, cd, cs) ==
    IF i > Len(sorted_tables) THEN MaxLevelDone(cd, cs)
    ELSE
    LET table == sorted_tables[i]
        ranged == [cd EXCEPT !.this_size = table.size,
                             !.this_range = FromTable(table),
                             !.next_range = FromTable(table)]
        topped == [ranged EXCEPT !.top = <<table>>]
        need_file_size == cd.priority.targets.file_size[cd.this_level + 1]
        j == FirstFrom(Len(tables), LAMBDA x : tables[x].smallest >= table.smallest)
        collected == CollectBottom(tables, j + 1, table.size, need_file_size, topped)
        added == compare_and_add(cs, collected)
    IN  IF table.max_version > clock.discard_ts
        THEN MaxLevelLoop(tables, sorted_tables, i + 1, cd, cs)
        ELSE IF clock.now - table.created_at < LMAX_MIN_AGE
        THEN MaxLevelLoop(tables, sorted_tables, i + 1, cd, cs)
        ELSE IF table.stale_data_size < LMAX_MIN_STALE
        THEN MaxLevelLoop(tables, sorted_tables, i + 1, cd, cs)
        ELSE IF StatusOverlaps(cs, cd.this_level, ranged.this_range)
        THEN MaxLevelLoop(tables, sorted_tables, i + 1, ranged, cs)
        ELSE IF table.size >= need_file_size
        THEN MaxLevelDone(topped, cs)
        ELSE IF added.ok
        THEN Filled("true", collected, added.cs)
        ELSE MaxLevelLoop(tables, sorted_tables, i + 1,
                 [collected EXCEPT !.bottom = <<>>, !.next_range = DefaultKeyRange], cs)

\* Some(bool) is "true" / "false", None is "none"
try_fill_max_level_tables(cd, cs, sorted_tables) ==
    LET tables == Tables(cd.this_level) IN
    IF Len(tables) = 0 THEN Filled("false", cd, cs)
    ELSE IF cd.this_level # max_levels - 1 THEN Filled("none", cd, cs)
    ELSE IF sorted_tables[1].stale_data_size = 0 THEN Filled("false", cd, cs)
    ELSE MaxLevelLoop(tables, sorted_tables, 1, [cd EXCEPT !.bottom = <<>>], cs)

RECURSIVE FillLoop(_, _, _, _)
\* for table in tables (sorted by max_version)
FillLoop(tables, i, cd, cs) ==
    IF i > Len(tables) THEN Filled("false", cd, cs)
    ELSE
    LET table == tables[i]
        ranged == [cd EXCEPT !.this_size = table.size, !.this_range = FromTable(table)]
        span == overlapping_tables(cd.next_level, ranged.this_range)
        bottom == Slice(Tables(cd.next_level), span.left, span.right)
        picked == [ranged EXCEPT !.top = <<table>>, !.bottom = bottom]
        alone == [picked EXCEPT !.next_range = ranged.this_range]
        paired == [picked EXCEPT !.next_range = FromTables(bottom)]
    IN  IF StatusOverlaps(cs, cd.this_level, ranged.this_range)
        THEN FillLoop(tables, i + 1, ranged, cs)
        ELSE IF Len(bottom) = 0
        THEN IF compare_and_add(cs, alone).ok
             THEN Added(alone, cs)
             ELSE FillLoop(tables, i + 1, alone, cs)
        ELSE IF StatusOverlaps(cs, cd.next_level, paired.next_range)
        THEN FillLoop(tables, i + 1, paired, cs)
        ELSE IF compare_and_add(cs, paired).ok
        THEN Added(paired, cs)
        ELSE FillLoop(tables, i + 1, paired, cs)

\* sorted_tables is the level's tables as the one sort that runs leaves them
fill_tables(cd, cs, sorted_tables) ==
    LET s == try_fill_max_level_tables(cd, cs, sorted_tables)
    IN IF s.ret # "none" THEN s ELSE FillLoop(sorted_tables, 1, cd, cs)

\* by stale data at the last level, by max version at a middle level; the
\* level-0 fills do not sort
SortsOf(level) ==
    IF level = 0 THEN {Tables(level)}
    ELSE IF level = max_levels - 1 THEN SortedOrders(Tables(level), ByStaleDesc)
    ELSE SortedOrders(Tables(level), ByVersionAsc)

\* do_compact: [result, compact_def, compact_status]
do_compact(task_id, priority_level, cs, sorted_tables) ==
    LET targets == level_targets
        next_level == IF priority_level = 0 THEN targets.base_level
                      ELSE IF priority_level # max_levels - 1 THEN priority_level + 1
                      ELSE priority_level
        compact_def == NewCompactDef(task_id, priority_level, targets,
                                     priority_level, next_level)
        f == IF priority_level = 0
             THEN fill_tables_level0(compact_def, cs)
             ELSE fill_tables(compact_def, cs, sorted_tables)
    IN [result |-> CASE f.ret = "true" -> "Ok"
                     [] f.ret = "false" -> "Unable to fill tables"
                     [] OTHER -> "panic",
        compact_def |-> f.cd,
        compact_status |-> f.cs]

RECURSIVE SplitLoopTsMax(_, _, _, _, _)
\* a loop that cuts before the versions of the largest key of a bottom table
SplitLoopTsMax(bottom, width, i, skr, splits) ==
    IF i >= Len(bottom) THEN splits
    ELSE IF i = Len(bottom) - 1
    THEN Append(splits, [skr EXCEPT !.right = NoKey])
    ELSE IF i % width = width - 1
    THEN LET right == KeyWithTsMax(bottom[i + 1].biggest)
         IN SplitLoopTsMax(bottom, width, i + 1, KeyRange(right, right, skr.inf),
                           Append(splits, [skr EXCEPT !.right = right]))
    ELSE SplitLoopTsMax(bottom, width, i + 1, skr, splits)

RECURSIVE SplitLoop(_, _, _, _, _)
\* for i in 0..compact_def.bottom.len()
SplitLoop(bottom, width, i, skr, splits) ==
    IF i >= Len(bottom) THEN splits
    ELSE IF i = Len(bottom) - 1
    THEN Append(splits, [skr EXCEPT !.right = NoKey])
    ELSE IF i % width = width - 1
    THEN LET right == KeyWithTs0(bottom[i + 1].biggest)
         IN SplitLoop(bottom, width, i + 1, KeyRange(right, right, skr.inf),
                      Append(splits, [skr EXCEPT !.right = right]))
    ELSE SplitLoop(bottom, width, i + 1, skr, splits)

add_splits(cd) ==
    LET width == Max({(Len(cd.bottom) + 4) \div 5, 3})
        skr == Extend(cd.this_range, cd.next_range)
    IN [cd EXCEPT !.splits = SplitLoop(cd.bottom, width, 0, skr, <<>>)]

Reverse(seq) == [i \in 1..Len(seq) |-> seq[Len(seq) + 1 - i]]

\* compact_build_tables: for every split a merge iterator over out and valid
\* is made and dropped, the spawned task only releases its permit; no table
\* is written
compact_build_tables(level, cd) ==
    LET valid == cd.bottom
        out == IF level = 0 THEN Reverse(cd.top)
               ELSE IF Len(cd.top) > 0 THEN <<cd.top[1]>>
               ELSE <<>>
        iters == [i \in 1..Len(cd.splits) |-> <<out, valid>>]
    IN [result |-> "Ok", new_tables |-> <<>>]

run_compact_def(task_id, level, cd) ==
    IF Len(cd.priority.targets.file_size) = 0
    THEN [result |-> "Filesizes cannot be zero", compact_def |-> cd, new_tables |-> <<>>]
    ELSE LET split == IF cd.this_level # cd.next_level THEN add_splits(cd) ELSE cd
             ready == IF Len(split.splits) = 0
                      THEN [split EXCEPT !.splits = <<DefaultKeyRange>>]
                      ELSE split
             built == compact_build_tables(level, ready)
         IN [result |-> built.result, compact_def |-> ready,
             new_tables |-> built.new_tables]

\* ---- the store a controller is built over
KeySpans == {s \in UserKeys \X UserKeys : s[1] <= s[2]}

\* size, stale data (units of 10 MiB) and max version of a table of a level
TableAttrs(level) ==
    IF level = 0 THEN {<<1, 0, 1>>}
    ELSE IF level = max_levels - 1 THEN {<<1, 0, 1>>, <<1, 1, 1>>, <<1, 1, 2>>}
    ELSE {<<1, 0, 1>>}

TableShapes(level) ==
    {[smallest |-> s[1], biggest |-> s[2], size |-> a[1],
      stale_data_size |-> a[2], max_version |-> a[3], created_at |-> 0] :
        s \in KeySpans, a \in TableAttrs(level)}

\* level 0 holds any tables; a deeper level is sorted and non-overlapping
LevelShapes(level, budget) ==
    LET most == IF level = 0 THEN budget ELSE Min(budget, MaxLowerTables)
        all == UNION {[1..n -> TableShapes(level)] : n \in 0..most}
    IN {t \in all : level > 0 =>
            \A i \in 1..(Len(t) - 1) : t[i].biggest < t[i + 1].smallest}

RECURSIVE StoreShapes(_, _)
\* the levels from one level down, with at most budget tables
StoreShapes(level, budget) ==
    IF level = max_levels THEN {<<>>}
    ELSE UNION {{<<t>> \o rest : rest \in StoreShapes(level + 1, budget - Len(t))} :
                    t \in LevelShapes(level, budget)}

RECURSIVE TablesBefore(_, _)
TablesBefore(store, level) ==
    IF level = 0 THEN 0 ELSE Len(store[level]) + TablesBefore(store, level - 1)

\* table ids are given in level order, from 1
WithIds(store) ==
    [l \in 1..Len(store) |->
        [i \in 1..Len(store[l]) |->
            [id |-> TablesBefore(store, l - 1) + i,
             smallest |-> store[l][i].smallest,
             biggest |-> store[l][i].biggest,
             size |-> store[l][i].size,
             stale_data_size |-> store[l][i].stale_data_size,
             max_version |-> store[l][i].max_version,
             created_at |-> store[l][i].created_at]]]

NewCompactor == [pc |-> "idle", result |-> "none",
                 compact_def |-> NewCompactDef(0, 0, <<>>, 0, 0),
                 built |-> FALSE, new_tables |-> <<>>]

\* LevelsControllerBuilder::build, then start_compact
CompactInit ==
    /\ \E top \in LevelShapes(0, MaxTables) :
          \E lower \in StoreShapes(1, Min(MaxTables - Len(top), MaxLowerTables)) :
              levels = WithIds(<<top>> \o lower)
    /\ compact_status = NewCompactStatus
    /\ compactors = [w \in Compactors |-> NewCompactor]
    /\ clock \in {[now |-> n, discard_ts |-> 1] : n \in {L0_TO_L0_MIN_AGE - 1, LMAX_MIN_AGE}}
    /\ closer = [captured |-> FALSE]

\* a worker calls do_compact for a level
DoCompact(w, priority_level) ==
    /\ compactors[w].pc = "idle"
    /\ \E sorted_tables \in SortsOf(priority_level) :
          LET r == do_compact(w, priority_level, compact_status, sorted_tables)
          IN /\ compact_status' = r.compact_status
             /\ compactors' = [compactors EXCEPT ![w] =
                    [@ EXCEPT !.pc = "returned", !.result = r.result,
                              !.compact_def = r.compact_def]]
    /\ UNCHANGED <<levels, clock, closer, oracle_vars, cl, manifest_vars, file_vars, storage_vars>>

\* run_compact_def on a filled CompactDef
RunCompactDef(w) ==
    /\ compactors[w].pc = "returned"
    /\ compactors[w].result = "Ok"
    /\ ~compactors[w].built
    /\ LET cd == compactors[w].compact_def
           r == run_compact_def(w, cd.this_level, cd)
       IN compactors' = [compactors EXCEPT ![w] =
              [@ EXCEPT !.built = TRUE, !.result = r.result,
                        !.compact_def = r.compact_def, !.new_tables = r.new_tables]]
    /\ UNCHANGED <<levels, compact_status, clock, closer, oracle_vars, cl, manifest_vars, file_vars, storage_vars>>

CompactNext ==
    \E w \in Compactors :
        \/ \E priority_level \in 0..(max_levels - 1) : DoCompact(w, priority_level)
        \/ RunCompactDef(w)

InitCompact ==
    /\ OracleInit(FALSE)
    /\ config = DetectingConfig
    /\ CleanupIdle
    /\ ManifestIdle
    /\ CompactInit
    /\ FilesIdle
    /\ StorageIdle
SpecCompact == InitCompact /\ [][CompactNext]_vars

(***************************************************************************)
(* Claims about the levels controller                                      *)
(***************************************************************************)
\* two registered ranges share a key: an infinite range covers every key,
\* an empty range none
Intersects(a, b) ==
    /\ ~IsEmpty(a)
    /\ ~IsEmpty(b)
    /\ \/ a.inf
       \/ b.inf
       \/ (a.left <= b.right /\ b.left <= a.right)

InProgress(level) == compact_status.levels[level + 1]

\* C2: in every reachable state, whatever fills the workers ran, the key
\* ranges registered as in progress in CompactStatus for one level are
\* pairwise non-overlapping.
C2_RangesOfALevelDisjoint ==
    \A level \in 0..(max_levels - 1) :
        \A i, j \in 1..Len(InProgress(level)) :
            i # j => ~Intersects(InProgress(level)[i], InProgress(level)[j])

\* the entries a table is known to hold: its smallest and its biggest user
\* key, at the table's max version
TableEntries(table) ==
    {<<table.smallest, table.max_version>>, <<table.biggest, table.max_version>>}

EntriesOf(tables) == UNION {TableEntries(tables[i]) : i \in 1..Len(tables)}

\* for every user key, its newest version at or below the GC watermark
NewestVisible(entries) ==
    {e \in entries :
        /\ e[2] <= clock.discard_ts
        /\ \A f \in entries : (f[1] = e[1] /\ f[2] <= clock.discard_ts) => f[2] <= e[2]}

\* do_compact filled a candidate and run_compact_def returned Ok for it
Completed(w) ==
    /\ compactors[w].pc = "returned"
    /\ compactors[w].built
    /\ compactors[w].result = "Ok"

\* C3: after a compaction attempt over top and bottom tables completes
\* successfully, (a) the newest version at or below the GC watermark of every
\* user key of the input tables is in the output tables, and (b) the output
\* tables are sorted and pairwise non-overlapping.
C3_CompactionKeepsNewestVisible ==
    \A w \in Compactors :
        Completed(w) =>
            LET cd == compactors[w].compact_def
                out == compactors[w].new_tables
            IN /\ NewestVisible(EntriesOf(cd.top \o cd.bottom)) \subseteq EntriesOf(out)
               /\ \A i \in 1..(Len(out) - 1) : out[i].biggest < out[i + 1].smallest

\* C4: once do_compact has returned, CompactStatus holds none of the key
\* ranges and none of the table ids the attempt registered during its fill.
C4_ReturnedAttemptHoldsNothing ==
    \A w \in Compactors :
        (compactors[w].pc = "returned" /\ compactors[w].result = "Ok") =>
            LET cd == compactors[w].compact_def
            IN /\ (Ids(cd.top) \cup Ids(cd.bottom)) \cap compact_status.tables = {}
               /\ \A i \in 1..Len(InProgress(cd.this_level)) :
                      InProgress(cd.this_level)[i] # cd.this_range
               /\ \A i \in 1..Len(InProgress(cd.next_level)) :
                      InProgress(cd.next_level)[i] # cd.next_range

(***************************************************************************)
(* Oracle: the GC low-watermark                                            *)
(***************************************************************************)
\* discard_at_or_below that returns the newest snapshot handed out
DiscardAtNewestSnapshot(cfg, guard, rm) ==
    guard.next_txn_ts - 1

\* oracle.rs:59-67
discard_at_or_below(cfg, guard, rm) ==
    IF cfg.managed_txns THEN guard.discard_ts ELSE DoneUntil(rm)

\* the read of t was begun by get_latest_read_ts and is not yet done
ReadPending(t) ==
    /\ ~config.managed_txns
    /\ txns[t].pc \in {"wait", "active", "aborted"}
    /\ ~txns[t].done_read

\* C11 as stated: the GC low-watermark is strictly below the read timestamp
\* of every transaction whose read is still pending.
C11_DiscardStrictlyBelowPendingReads ==
    \A t \in Txns :
        ReadPending(t) => discard_at_or_below(config, inner, read_mark) < txns[t].read_ts

\* C11, amended: in non-managed mode discard_at_or_below() is
\* read_mark.done_until() and is at or below the read timestamp of every
\* transaction whose read is still pending; with a managed configuration it
\* is the stored discard_ts.
C11_DiscardAtOrBelowPendingReads ==
    /\ \A t \in Txns :
          ReadPending(t) =>
              /\ discard_at_or_below(config, inner, read_mark) = DoneUntil(read_mark)
              /\ discard_at_or_below(config, inner, read_mark) <= txns[t].read_ts
    /\ \A cfg \in Configs :
          cfg.managed_txns => discard_at_or_below(cfg, inner, read_mark) = inner.discard_ts

\* a read at timestamp 1 is pending while the watermark already stands at 1
C11_Witness ==
    \E t \in Txns :
        /\ ReadPending(t)
        /\ txns[t].read_ts = 1
        /\ discard_at_or_below(config, inner, read_mark) = 1

\* t holds a snapshot handed out by get_latest_read_ts
HasSnapshot(t) == ~config.managed_txns /\ txns[t].pc \in {"wait", "active"}

\* a step of get_latest_read_ts by t: the snapshot is next_txn_ts - 1 as it
\* stands at the call, it is counted as pending in read_mark when the mutex
\* is free again, and no commit timestamp allocated so far is above it
C12_ReadStep(t) ==
    (txns[t].pc = "idle" /\ txns'[t].pc = "wait") =>
        /\ txns'[t].read_ts = inner.next_txn_ts - 1
        /\ read_mark'.pending[txns'[t].read_ts] = read_mark.pending[txns'[t].read_ts] + 1
        /\ inner_lock' = 0
        /\ \A i \in 1..Len(commits) : commits[i].ts <= txns'[t].read_ts

\* a step that allocates a commit timestamp: it is above every snapshot
\* handed out before
C12_CommitStep ==
    Len(commits') > Len(commits) =>
        \A t \in Txns : HasSnapshot(t) => commits'[Len(commits')].ts > txns[t].read_ts

\* C12: get_latest_read_ts returns exactly next_txn_ts - 1 as read under the
\* mutex and registers it as pending in the read watermark before the mutex
\* is released; the snapshot is at or above every commit timestamp allocated
\* before the call and below every commit timestamp allocated after it.
C12_SnapshotIsNextMinusOne ==
    [][(\A t \in Txns : C12_ReadStep(t)) /\ C12_CommitStep]_vars

\* a snapshot at 1 is held while timestamp 1 was allocated before it and
\* timestamp 2 after it
C12_Witness ==
    \E t \in Txns :
        /\ HasSnapshot(t)
        /\ txns[t].read_ts = 1
        /\ Len(commits) = 2

(***************************************************************************)
(* Oracle under fair scheduling: a task that can return from wait_for_mark *)
(* is polled again by the runtime, and a committer whose writes were       *)
(* applied marks its timestamp done.                                       *)
(***************************************************************************)
SpecOracleFair ==
    /\ InitOracle
    /\ [][OracleNext]_vars
    /\ \A t \in Txns : WF_vars(GetLatestReadTsReturn(t)) /\ WF_vars(DoneCommit(t))

\* t is blocked in wait_for_mark: txn_mark has not reached its snapshot
Blocked(t) == txns[t].pc = "wait" /\ ~WaitForMarkReady(txn_mark, txns[t].read_ts)

\* while a reader is in wait_for_mark the mutex is free and another task can
\* take a snapshot
MutexFreeWhileWaiting ==
    \A t \in Txns : txns[t].pc = "wait" =>
        /\ inner_lock = 0
        /\ \A u \in Txns : txns[u].pc = "idle" => ENABLED GetLatestReadTs(u)

\* C13: the oracle mutex is never held while a task waits in wait_for_mark,
\* so a blocked reader does not keep others from acquiring it, and the reader
\* returns provided every commit that was begun is marked done.
C13_WaitOutsideMutexAndReturns ==
    /\ []MutexFreeWhileWaiting
    /\ \A t \in Txns : (txns[t].pc = "wait") ~> (txns[t].pc = "active")

\* a reader is blocked behind a commit that is not yet marked done
C13_Witness ==
    \E t, u \in Txns :
        /\ Blocked(t)
        /\ txns[u].pc = "committing"
        /\ txns[u].commit_ts <= txns[t].read_ts

(***************************************************************************)
(* Candidate fill and the shared state                                     *)
(***************************************************************************)
\* the CompactDef do_compact hands to the fill functions (levels.rs:565-590)
CandidateOf(task_id, priority_level) ==
    LET targets == level_targets
        next_level == IF priority_level = 0 THEN targets.base_level
                      ELSE IF priority_level # max_levels - 1 THEN priority_level + 1
                      ELSE priority_level
    IN NewCompactDef(task_id, priority_level, targets, priority_level, next_level)

FillCall(fn, r) == [fn |-> fn, r |-> r]

\* every call of a fill function that do_compact can make in this state
FillCalls ==
    UNION {
        LET cd0 == CandidateOf(task_id, 0)
            base == fill_tables_level0_to_levelbase(cd0, compact_status)
        IN  {FillCall("fill_tables_level0_to_levelbase", base)}
            \cup (IF base.ret = "false"
                  THEN {FillCall("fill_tables_level0_to_level0",
                                 fill_tables_level0_to_level0(base.cd, base.cs))}
                  ELSE {})
            \cup UNION {
                   {FillCall("try_fill_max_level_tables",
                             try_fill_max_level_tables(CandidateOf(task_id, level),
                                                       compact_status, sorted_tables)),
                    FillCall("fill_tables",
                             fill_tables(CandidateOf(task_id, level),
                                         compact_status, sorted_tables))}
                   : <<level, sorted_tables>> \in
                         {<<l, s>> \in (1..(max_levels - 1)) \X UNION {SortsOf(l) : l \in 1..(max_levels - 1)} :
                              s \in SortsOf(l)}}
        : task_id \in Compactors}

RangesAt(cs, level) == {cs.levels[level + 1][i] : i \in 1..Len(cs.levels[level + 1])}

\* a fill that returned false left the Compaction Status as it found it
FalseLeavesStatus(call) == call.r.ret = "false" => call.r.cs = compact_status

ThisRangeRegistered(call) ==
    call.r.cd.this_range \in RangesAt(call.r.cs, call.r.cd.this_level)
NextRangeRegistered(call) ==
    call.r.cd.next_range \in RangesAt(call.r.cs, call.r.cd.next_level)

\* a step in which do_compact ran its fill
FillStep(w) == compactors[w].pc = "idle" /\ compactors'[w].pc = "returned"

\* C14 as stated: false leaves Compaction Status and the levels' table lists
\* alone; true has this_range registered for the source level and next_range
\* for the target level.
C14_FillRegistersBothRanges ==
    \A call \in FillCalls :
        /\ FalseLeavesStatus(call)
        /\ call.r.ret = "true" => ThisRangeRegistered(call) /\ NextRangeRegistered(call)

\* C14: a fill that returns false leaves Compaction Status and every level's
\* table list as before the call; one that returns true has this_range
\* registered for the source level, and next_range for the target level
\* unless it is fill_tables_level0_to_level0, which registers the one
\* infinite this_range for level 0 and leaves next_range empty.
C14_FillAllOrNothing ==
    /\ [](\A call \in FillCalls :
              /\ FalseLeavesStatus(call)
              /\ call.r.ret = "true" =>
                    /\ ThisRangeRegistered(call)
                    /\ IF call.fn = "fill_tables_level0_to_level0"
                       THEN /\ IsEmpty(call.r.cd.next_range)
                            /\ ~NextRangeRegistered(call)
                       ELSE NextRangeRegistered(call))
    /\ [][\A w \in Compactors : FillStep(w) =>
              /\ levels' = levels
              /\ compactors'[w].result # "Ok" => compact_status' = compact_status]_vars

\* every one of the four functions has returned true in one state or
\* another; here the level-0 to level-0 fill succeeds after the level-0 to
\* base fill was refused
C14_Witness ==
    /\ \E call \in FillCalls : call.fn = "fill_tables_level0_to_level0" /\ call.r.ret = "true"
    /\ \E call \in FillCalls : call.fn = "fill_tables_level0_to_levelbase" /\ call.r.ret = "false"
    /\ \E call \in FillCalls : call.fn = "fill_tables" /\ call.r.ret = "false"

(***************************************************************************)
(* run_compact: the worker loop (levels.rs:478-523).  A worker waits out a *)
(* random delay, makes one call of do_compact for the last level, and then *)
(* counts interval ticks until the shutdown signal is captured.  Both      *)
(* select! statements take any branch that is ready; the delay and the     *)
(* interval are timers, ready whenever enough time has passed.             *)
(***************************************************************************)
MaxTicks == 2

num_level_zero_tables_stall == 4

\* a spawned worker, in the select! on its random delay
NewWorker == [pc |-> "delay", count |-> 0, attempts |-> <<>>, result |-> "none",
              compact_def |-> NewCompactDef(0, 0, <<>>, 0, 0)]

\* a flushed memtable: a level-0 table over every key
Level0Table ==
    [smallest |-> 0, biggest |-> 1, size |-> 1, stale_data_size |-> 0,
     max_version |-> 1, created_at |-> 0]

\* LevelsControllerBuilder::build over a store whose level 0 is empty or at
\* the stall threshold, then start_compact spawns the workers
RunCompactInit ==
    /\ \E n \in {0, num_level_zero_tables_stall}, last \in LevelShapes(max_levels - 1, MaxLowerTables) :
          levels = WithIds([l \in 1..max_levels |->
                               IF l = 1 THEN [i \in 1..n |-> Level0Table]
                               ELSE IF l = max_levels THEN last
                               ELSE <<>>])
    /\ compact_status = NewCompactStatus
    /\ compactors = [w \in Compactors |-> NewWorker]
    /\ clock = [now |-> LMAX_MIN_AGE, discard_ts |-> 1]
    /\ closer = [captured |-> FALSE]

\* last_level().get_level()
last_level == max_levels - 1

\* levels.rs:486-490, 502-509: the delay is over, the worker builds the
\* priority for the last level and enters do_compact
SleepElapsed(w) ==
    /\ compactors[w].pc = "delay"
    /\ compactors' = [compactors EXCEPT ![w] =
           [@ EXCEPT !.pc = "compacting", !.attempts = Append(@, last_level)]]
    /\ UNCHANGED <<levels, compact_status, clock, closer, oracle_vars, cl, manifest_vars, file_vars, storage_vars>>

\* levels.rs:509: do_compact returns, its result is dropped, and the worker
\* enters the loop
DoCompactReturns(w) ==
    /\ compactors[w].pc = "compacting"
    /\ \E sorted_tables \in SortsOf(last_level) :
          \E r \in {do_compact(w, last_level, compact_status, sorted_tables)} :
             /\ compact_status' = r.compact_status
             /\ compactors' = [compactors EXCEPT ![w] =
                    [@ EXCEPT !.pc = "ticking", !.result = r.result,
                              !.compact_def = r.compact_def]]
    /\ UNCHANGED <<levels, clock, closer, oracle_vars, cl, manifest_vars, file_vars, storage_vars>>

\* levels.rs:512-517: the interval fires and the worker counts it
Tick(w) ==
    /\ compactors[w].pc = "ticking"
    /\ compactors[w].count < MaxTicks
    /\ compactors' = [compactors EXCEPT ![w].count = @ + 1]
    /\ UNCHANGED <<levels, compact_status, clock, closer, oracle_vars, cl, manifest_vars, file_vars, storage_vars>>

\* levels.rs:489, 518: closer.captured() is ready and its branch is taken
CloserCaptured(w) ==
    /\ compactors[w].pc \in {"delay", "ticking"}
    /\ closer.captured
    /\ compactors' = [compactors EXCEPT ![w].pc = "returned"]
    /\ UNCHANGED <<levels, compact_status, clock, closer, oracle_vars, cl, manifest_vars, file_vars, storage_vars>>

\* the store raises the shutdown signal
Shutdown ==
    /\ ~closer.captured
    /\ closer' = [captured |-> TRUE]
    /\ UNCHANGED <<levels, compact_status, compactors, clock, oracle_vars, cl, manifest_vars, file_vars, storage_vars>>

RunCompactNext ==
    \/ Shutdown
    \/ \E w \in Compactors :
        \/ SleepElapsed(w)
        \/ DoCompactReturns(w)
        \/ Tick(w)
        \/ CloserCaptured(w)

InitRunCompact ==
    /\ OracleInit(FALSE)
    /\ config = DetectingConfig
    /\ CleanupIdle
    /\ ManifestIdle
    /\ RunCompactInit
    /\ FilesIdle
    /\ StorageIdle

\* timers fire, a task that is ready is polled, and a select! whose shutdown
\* branch stays ready takes it.  do_compact's awaits complete: a worker in
\* do_compact can only leave it by DoCompactReturns, so its weak fairness is
\* stated as the worker being outside do_compact again and again.
SpecRunCompact ==
    /\ InitRunCompact
    /\ [][RunCompactNext]_vars
    /\ \A w \in Compactors :
          /\ WF_vars(SleepElapsed(w))
          /\ []<>(compactors[w].pc # "compacting")
          /\ WF_vars(Tick(w))
          /\ WF_vars(CloserCaptured(w))

\* the number of compaction attempts worker w has started
Attempts(w) == Len(compactors[w].attempts)

\* level 0 holds at least the stall threshold number of tables
Level0Stalled == Len(Tables(0)) >= num_level_zero_tables_stall

\* C15: a worker that has not observed shutdown starts an attempt on every
\* interval tick; after a failed attempt it makes another at a later tick;
\* and while level 0 is at the stall threshold with no shutdown, some worker
\* eventually attempts a compaction with source level 0.
C15_AttemptOnEveryTick ==
    /\ [][\A w \in Compactors :
              compactors'[w].count > compactors[w].count =>
                  Len(compactors'[w].attempts) > Attempts(w)]_vars
    /\ \A w \in Compactors :
          [](([]~closer.captured /\ compactors[w].result = "Unable to fill tables")
                 => <>(Attempts(w) > 1))
    /\ []((Level0Stalled /\ []~closer.captured)
              => <>(\E w \in Compactors : \E i \in 1..Attempts(w) :
                        compactors[w].attempts[i] = 0))

\* C16: once the shutdown signal is raised every worker eventually returns
\* from run_compact, and no worker starts a compaction attempt after the
\* signal was raised.
C16_ShutdownStopsWorkers ==
    /\ closer.captured ~> (\A w \in Compactors : compactors[w].pc = "returned")
    /\ [][\A w \in Compactors :
              Len(compactors'[w].attempts) > Attempts(w) => ~closer.captured]_vars

\* the half of C16 that holds in every behaviour
ShutdownReturnsWorkers ==
    closer.captured ~> (\A w \in Compactors : compactors[w].pc = "returned")

(***************************************************************************)
(* Opening a manifest file that ends in a partial record                   *)
(***************************************************************************)
RECURSIVE RecordsEnd(_)
\* the end offset of the last whole record: the magic bytes and one record
\* per appended change
RecordsEnd(log) ==
    IF log = <<>> THEN Len(help_rewrite(m_cfg, NewManifest))
    ELSE RecordsEnd(SubSeq(log, 1, Len(log) - 1)) + Len(Record(<<log[Len(log)]>>))

\* build runs over an existing file whose whole records are followed by a
\* truncated one
BuildOverTornFile ==
    /\ m_res.err = "not built"
    /\ m_res'.err # "not built"
    /\ m_file.exists
    /\ m_torn
    /\ HeaderAccepted(m_file.bytes, m_cfg)

\* C17: build on an existing manifest file whose valid records are followed
\* by a truncated or checksum-corrupt record succeeds, the manifest reflects
\* exactly the valid records, and the file is truncated to the end of the
\* last valid record unless the store is read-only, when its length is left
\* unchanged.
C17_BuildDropsBadTail ==
    [][BuildOverTornFile =>
          /\ m_res'.err = "none"
          /\ DOMAIN m_res'.manifest.tables = Created(m_log) \ Deleted(m_log)
          /\ IF m_cfg.read_only
             THEN m_file' = m_file
             ELSE m_file'.bytes = SubSeq(m_file.bytes, 1, RecordsEnd(m_log))]_vars

(***************************************************************************)
(* Manifest::apply_change_set on its own: change sets are applied to a     *)
(* manifest one after another until one fails.                             *)
(***************************************************************************)
MaxApplied == 4

\* a change as decoded from a record: a create or a delete of an id, each
\* with the level field it carries
Changes == {[op |-> op, id |-> id, level |-> level] :
                op \in {"Create", "Delete"}, id \in TableIds, level \in Levels}

\* change sets of one change or two
ChangeSets == {<<a>> : a \in Changes} \cup {<<a, b>> : a \in Changes, b \in Changes}

ApplyInit ==
    /\ m_cfg = [external_magic_version |-> 0, read_only |-> FALSE]
    /\ m_file = NoFile
    /\ m_log = <<>>
    /\ m_torn = FALSE
    /\ m_res = [err |-> "none", manifest |-> NewManifest]

\* manifest.rs:246-251
ApplyChangeSet ==
    /\ m_res.err = "none"
    /\ \E change_set \in ChangeSets :
          /\ Len(m_log) + Len(change_set) <= MaxApplied
          /\ LET r == apply_change_set(m_res.manifest, change_set)
             IN  /\ m_res' = [err |-> r.err, manifest |-> r.manifest]
                 /\ m_log' = m_log \o change_set
    /\ UNCHANGED <<m_cfg, m_file, m_torn, oracle_vars, cl, compact_vars, file_vars, storage_vars>>

InitApply ==
    /\ OracleInit(FALSE)
    /\ config = DetectingConfig
    /\ CleanupIdle
    /\ ApplyInit
    /\ CompactIdle
    /\ FilesIdle
    /\ StorageIdle
SpecApply == InitApply /\ [][ApplyChangeSet]_vars

\* the ids of the tables map that are recorded at a level
IdsAtLevel(manifest, level) ==
    {id \in DOMAIN manifest.tables : manifest.tables[id].level = level}

\* C18: after any sequence of successfully applied change sets the two
\* indexes agree: levels[l].tables is exactly the set of ids whose entry in
\* the tables map has level l, so every live id is owned by exactly one
\* level and a deleted id appears in no level's set.
C18_LevelsAgreeWithTables ==
    m_res.err = "none" =>
        \A l \in 1..Len(m_res.manifest.levels) :
            m_res.manifest.levels[l] = IdsAtLevel(m_res.manifest, l - 1)

(***************************************************************************)
(* revert_to_manifest (levels.rs:1024-1048): the table files found in the  *)
(* directory are checked against the manifest and the strays removed.      *)
(***************************************************************************)
MaxFileId == 3
FileIds == 1..MaxFileId

\* a manifest whose tables are ids, all at level 0
ManifestOf(ids) ==
    [NewManifest EXCEPT !.levels = <<ids>>,
                        !.tables = [id \in ids |-> TableManifest(0)],
                        !.creations = Cardinality(ids)]

\* revert_to_manifest that removes the strays before it looks for the
\* files of the manifest
RevertRemovingFirst(manifest, sst_id_set) ==
    LET strays == sst_id_set \ DOMAIN manifest.tables IN
    IF \E id \in DOMAIN manifest.tables : id \notin sst_id_set
    THEN {[err |-> "file does not exist", removed |-> strays]}
    ELSE {[err |-> "none", removed |-> strays]}

\* the outcomes of revert_to_manifest: the error and the files removed.
\* sst_id_set is a HashSet, walked in any order, and remove_file may fail:
\* then the files removed so far stay removed and the error is returned.
revert_to_manifest(manifest, sst_id_set) ==
    LET strays == sst_id_set \ DOMAIN manifest.tables IN
    IF \E id \in DOMAIN manifest.tables : id \notin sst_id_set
    THEN {[err |-> "file does not exist", removed |-> {}]}
    ELSE {[err |-> "none", removed |-> strays]}
         \cup {[err |-> "While removing table", removed |-> r] :
                   r \in (SUBSET strays) \ {strays}}

\* the manifest as replayed and the directory as found
RevertInit ==
    /\ m_cfg = [external_magic_version |-> 0, read_only |-> FALSE]
    /\ m_file = NoFile
    /\ m_log = <<>>
    /\ m_torn = FALSE
    /\ \E ids \in SUBSET FileIds : m_res = [err |-> "none", manifest |-> ManifestOf(ids)]
    /\ next_file_id = 0
    /\ reserved = <<>>
    /\ dir \in SUBSET FileIds
    /\ reverted = NotCalled

\* levels.rs:308-312: revert_to_manifest(dir, manifest, parse_set_from_dir(dir))
RevertToManifest ==
    /\ reverted = NotCalled
    /\ \E r \in revert_to_manifest(m_res.manifest, dir) :
          /\ dir' = dir \ r.removed
          /\ reverted' = r
    /\ UNCHANGED <<next_file_id, reserved, oracle_vars, cl, manifest_vars, compact_vars, storage_vars>>

\* the store is opened once more over the directory as it was left
OpenAgain ==
    /\ reverted # NotCalled
    /\ reverted' = NotCalled
    /\ UNCHANGED <<next_file_id, reserved, dir, oracle_vars, cl, manifest_vars, compact_vars, storage_vars>>

RevertNext == RevertToManifest \/ OpenAgain

InitRevert ==
    /\ OracleInit(FALSE)
    /\ config = DetectingConfig
    /\ CleanupIdle
    /\ CompactIdle
    /\ RevertInit
    /\ StorageIdle
SpecRevert == InitRevert /\ [][RevertNext]_vars

ManifestIds == DOMAIN m_res.manifest.tables

\* C19: if a table id of the manifest has no file in the directory,
\* revert_to_manifest returns an error and deletes no file; otherwise it
\* deletes table files whose id is not in the manifest and nothing else, and
\* after success the table files on disk are exactly the ids of the manifest.
C19_RevertToManifest ==
    [][reverted' # NotCalled =>
          IF ManifestIds \subseteq dir
          THEN /\ dir \ dir' \subseteq dir \ ManifestIds
               /\ reverted'.err = "none" => dir' = ManifestIds
          ELSE /\ reverted'.err # "none"
               /\ dir' = dir]_vars

\* a call has succeeded: it removed a stray file and left the files of a
\* manifest of two tables
C19_Witness ==
    /\ reverted.err = "none"
    /\ reverted.removed # {}
    /\ dir = ManifestIds
    /\ Cardinality(dir) = 2

\* a call has failed over a missing file while a stray file was there
C19_WitnessMissing ==
    /\ reverted.err = "file does not exist"
    /\ dir \ ManifestIds # {}

(***************************************************************************)
(* Table ids: LevelsController.next_file_id and get_reserve_file_id        *)
(***************************************************************************)
MaxReserved == 3

\* levels.rs:123-136: the controller build returns holds
\* next_file_id: Default::default(); AtomicU32::new(max_file_id + 1) is bound
\* to a local of build and stored nowhere
BuiltNextFileId(manifest) == 0

\* LevelsControllerBuilder::build over the manifest as replayed
FileIdInit ==
    /\ m_cfg = [external_magic_version |-> 0, read_only |-> FALSE]
    /\ m_file = NoFile
    /\ m_log = <<>>
    /\ m_torn = FALSE
    /\ \E ids \in SUBSET FileIds :
          /\ m_res = [err |-> "none", manifest |-> ManifestOf(ids)]
          /\ next_file_id = BuiltNextFileId(ManifestOf(ids))
          /\ dir = ids
    /\ reserved = <<>>
    /\ reverted = NotCalled

\* levels.rs:1009-1011: fetch_add(1, AcqRel) is one atomic step; it returns
\* the value before the addition (MaxReserved keeps it far from u32::MAX)
GetReserveFileId(task) ==
    /\ Len(reserved) < MaxReserved
    /\ reserved' = Append(reserved, [task |-> task, id |-> next_file_id])
    /\ next_file_id' = next_file_id + 1
    /\ UNCHANGED <<dir, reverted, oracle_vars, cl, manifest_vars, compact_vars, storage_vars>>

FileIdNext == \E task \in Compactors : GetReserveFileId(task)

InitFileId ==
    /\ OracleInit(FALSE)
    /\ config = DetectingConfig
    /\ CleanupIdle
    /\ CompactIdle
    /\ FileIdInit
    /\ StorageIdle
SpecFileId == InitFileId /\ [][FileIdNext]_vars

\* C20: after the controller has been built from a manifest, every id
\* get_reserve_file_id returns is strictly greater than every table id of
\* the manifest and different from every id returned before, whichever
\* tasks call it.
C20_ReservedIdsAboveManifest ==
    /\ \A i \in 1..Len(reserved) : \A id \in ManifestIds : reserved[i].id > id
    /\ \A i, j \in 1..Len(reserved) : i # j => reserved[i].id # reserved[j].id

\* the half of C20 that holds: no id is returned twice
ReservedIdsDistinct ==
    \A i, j \in 1..Len(reserved) : i # j => reserved[i].id # reserved[j].id

(***************************************************************************)
(* Blocks: BackendBlock::push_entry (table/write.rs) and SinkBlockIter     *)
(* (table/read.rs).  An entry is a 4-byte header {overlap, diff}, the diff *)
(* bytes of the key and the serialized value.  ValueMeta is carried as its *)
(* serialized bytes.  Block, the read side of a finished block, is not     *)
(* part of the sources: it holds the entry bytes followed by the offset    *)
(* table and the entry count, with entries_index_start at the end of the   *)
(* entry bytes.                                                            *)
(***************************************************************************)
MaxBlockEntries == 3
MaxKeyLen == 2

HEADER_SIZE == 4

KeyBytes == {1, 2}
BlockKeys == UNION {[1..n -> KeyBytes] : n \in 1..MaxKeyLen}
BlockValues == {<<7>>, <<8, 9>>}

None == 0 - 1

\* EntryHeader::new, serialize, deserialize
EntryHeader(overlap, diff) == [overlap |-> overlap, diff |-> diff]
SerializeHeader(h) == PutU16(h.overlap) \o PutU16(h.diff)
DeserializeHeader(data) == EntryHeader(GetU16(data), GetU16(Advance(data, 2)))

\* BackendBlock::new
NewBackendBlock == [data |-> <<>>, basekey |-> <<>>, entry_offsets |-> <<>>]

RECURSIVE DiffFrom(_, _, _)
\* the while loop of diff_base_key
DiffFrom(base_key, new_key, i) ==
    IF i < Min(Len(base_key), Len(new_key)) /\ base_key[i + 1] = new_key[i + 1]
    THEN DiffFrom(base_key, new_key, i + 1)
    ELSE i

\* table/write.rs:93-103
diff_base_key(b, new_key) == DiffFrom(b.basekey, new_key, 0)

\* table/write.rs:121-136
push_entry(b, key_ts, value) ==
    LET first == Len(b.basekey) = 0
        diff_key == IF first THEN key_ts ELSE Advance(key_ts, diff_base_key(b, key_ts))
        entry_header == EntryHeader(Len(key_ts) - Len(diff_key), Len(diff_key))
    IN [basekey |-> IF first THEN key_ts ELSE b.basekey,
        entry_offsets |-> Append(b.entry_offsets, Len(b.data)),
        data |-> b.data \o SerializeHeader(entry_header) \o diff_key \o value]

RECURSIVE OffsetBytes(_)
\* vec_u32_to_bytes
OffsetBytes(offsets) ==
    IF offsets = <<>> THEN <<>> ELSE PutU32(Head(offsets)) \o OffsetBytes(Tail(offsets))

\* the block a reader gets for a finished BackendBlock (finish_block,
\* table/write.rs:137-145, without the checksum record)
BlockOf(b) ==
    [data |-> b.data \o OffsetBytes(b.entry_offsets) \o PutU32(Len(b.entry_offsets)),
     entry_offsets |-> b.entry_offsets,
     entries_index_start |-> Len(b.data)]

\* impl From<Block> for SinkBlockIter; the block is kept beside the cursor
NewSinkBlockIter ==
    [base_key |-> <<>>, key |-> <<>>, header |-> EntryHeader(0, 0),
     entry_index |-> None, back_key |-> <<>>, back_header |-> EntryHeader(0, 0),
     back_entry_index |-> None]

\* data[from..to], offsets counted from 0
Bytes(data, from, to) == SubSeq(data, from + 1, to)
\* Vec::truncate
Truncate(v, len) == IF len < Len(v) THEN SubSeq(v, 1, len) ELSE v

\* the key after a step onto the entry with header next_header whose bytes
\* start data: table/read.rs:205-217 and 257-271
SpliceKey(key, base_key, prev_overlap, next_header, data) ==
    LET next_overlap == next_header.overlap
        prefix == IF next_overlap > prev_overlap
                  THEN Truncate(key, prev_overlap)
                           \o Bytes(base_key, prev_overlap, next_overlap)
                  ELSE Truncate(key, next_overlap)
    IN prefix \o Bytes(data, HEADER_SIZE, HEADER_SIZE + next_header.diff)

\* the base key and the first header, read when base_key is still empty
WithBaseKey(it, blk) ==
    IF Len(it.base_key) = 0
    THEN LET header == DeserializeHeader(blk.data)
         IN [it EXCEPT !.base_key = Bytes(blk.data, HEADER_SIZE, HEADER_SIZE + header.diff),
                       !.header = header]
    ELSE it

\* Ok(ret) with the iterator left as it, and a panic: entry_offsets[id + 1]
\* past the last entry, or back_id - 1 below zero, both reached only after
\* the other direction has started on the same iterator
Returns(ret, it) == [ret |-> ret, it |-> it, panic |-> FALSE]
Panics(it) == [ret |-> FALSE, it |-> it, panic |-> TRUE]

\* SinkBlockIter::next that does not splice the base key back in
BlockNextNoSplice(it, blk) ==
    IF it.entry_index # None
    THEN LET id == it.entry_index IN
         IF it.back_entry_index # None /\ id + 1 = it.back_entry_index
         THEN Returns(FALSE, it)
         ELSE IF it.back_entry_index = None /\ id = Len(blk.entry_offsets) - 1
         THEN Returns(FALSE, it)
         ELSE IF id + 1 >= Len(blk.entry_offsets) THEN Panics(it)
         ELSE LET data == Advance(blk.data, blk.entry_offsets[id + 2])
                  next_header == DeserializeHeader(data)
              IN Returns(TRUE, [it EXCEPT
                      !.entry_index = id + 1,
                      !.key = Truncate(it.key, next_header.overlap)
                                  \o Bytes(data, HEADER_SIZE, HEADER_SIZE + next_header.diff),
                      !.header = next_header])
    ELSE IF Len(blk.entry_offsets) = 0 THEN Returns(FALSE, it)
    ELSE LET based == WithBaseKey(it, blk)
         IN Returns(TRUE, [based EXCEPT !.key = based.base_key, !.entry_index = 0])

\* table/read.rs:188-237: SinkBlockIter::next over the block blk
BlockNext(it, blk) ==
    IF it.entry_index # None
    THEN LET id == it.entry_index IN
         IF it.back_entry_index # None /\ id + 1 = it.back_entry_index
         THEN Returns(FALSE, it)
         ELSE IF it.back_entry_index = None /\ id = Len(blk.entry_offsets) - 1
         THEN Returns(FALSE, it)
         ELSE IF id + 1 >= Len(blk.entry_offsets) THEN Panics(it)
         ELSE LET data == Advance(blk.data, blk.entry_offsets[id + 2])
                  next_header == DeserializeHeader(data)
              IN Returns(TRUE, [it EXCEPT
                      !.entry_index = id + 1,
                      !.key = SpliceKey(it.key, it.base_key, it.header.overlap,
                                        next_header, data),
                      !.header = next_header])
    ELSE IF Len(blk.entry_offsets) = 0 THEN Returns(FALSE, it)
    ELSE LET based == WithBaseKey(it, blk)
         IN Returns(TRUE, [based EXCEPT !.key = based.base_key, !.entry_index = 0])

\* table/read.rs:239-302: SinkBlockIter::next_back
BlockNextBack(it, blk) ==
    IF it.back_entry_index # None
    THEN LET back_id == it.back_entry_index IN
         IF it.entry_index # None /\ back_id - 1 = it.entry_index
         THEN Returns(FALSE, it)
         ELSE IF it.entry_index = None /\ back_id = 0
         THEN Returns(FALSE, it)
         ELSE IF back_id = 0 THEN Panics(it)
         ELSE LET data == Advance(blk.data, blk.entry_offsets[back_id])
                  next_back_header == DeserializeHeader(data)
              IN Returns(TRUE, [it EXCEPT
                      !.back_entry_index = back_id - 1,
                      !.back_key = SpliceKey(it.back_key, it.base_key,
                                             it.back_header.overlap,
                                             next_back_header, data),
                      !.back_header = next_back_header])
    ELSE IF Len(blk.entry_offsets) = 0 THEN Returns(FALSE, it)
    ELSE LET based == WithBaseKey(it, blk)
             last_offset == blk.entry_offsets[Len(blk.entry_offsets)]
             data == Advance(blk.data, last_offset)
             back_header == DeserializeHeader(data)
         IN Returns(TRUE, [based EXCEPT
                 !.back_header = back_header,
                 !.back_key = Bytes(based.base_key, 0, back_header.overlap)
                                  \o Bytes(data, HEADER_SIZE, HEADER_SIZE + back_header.diff),
                 !.back_entry_index = Len(blk.entry_offsets) - 1])

\* the value bytes of entry entry_id, whose header is header
ValueAt(blk, entry_id, header) ==
    LET next_entry_id == entry_id + 1
        end_offset == IF next_entry_id = Len(blk.entry_offsets)
                      THEN blk.entries_index_start
                      ELSE blk.entry_offsets[next_entry_id + 1]
        start_offset == blk.entry_offsets[entry_id + 1] + HEADER_SIZE + header.diff
    IN Bytes(blk.data, start_offset, end_offset)

\* Option: None is the empty sequence, Some(x) the sequence of x alone
NoneOpt == <<>>
Some(x) == <<x>>

\* table/read.rs:305-327: key() and value()
BlockKey(it) == IF Len(it.key) = 0 THEN NoneOpt ELSE Some(it.key)
BlockValue(it, blk) ==
    IF it.entry_index # None THEN Some(ValueAt(blk, it.entry_index, it.header)) ELSE NoneOpt
\* table/read.rs:328-352: key_back() and value_back()
BlockKeyBack(it) == IF Len(it.back_key) = 0 THEN NoneOpt ELSE Some(it.back_key)
BlockValueBack(it, blk) ==
    IF it.back_entry_index # None
    THEN Some(ValueAt(blk, it.back_entry_index, it.back_header))
    ELSE NoneOpt

\* everything outside the table, value-log and arena code at rest
RestIdle ==
    /\ OracleInit(FALSE)
    /\ config = DetectingConfig
    /\ CleanupIdle
    /\ ManifestIdle
    /\ CompactIdle
    /\ LocksIdle
    /\ FilesIdle

rest_vars == <<oracle_vars, cl, manifest_vars, compact_vars, file_vars, table_locks>>

\* a block being filled: the BackendBlock and the entries pushed so far
BlockInit ==
    block = [pc |-> "building", backend |-> NewBackendBlock, pushed |-> <<>>]

\* BackendBlock::push_entry called with one key and one serialized value
PushEntry(key_ts, value) ==
    /\ block.pc = "building"
    /\ Len(block.pushed) < MaxBlockEntries
    /\ block' = [block EXCEPT
           !.backend = push_entry(block.backend, key_ts, value),
           !.pushed = Append(block.pushed, <<key_ts, value>>)]
    /\ UNCHANGED <<opening, table_iter, builder, vlog, arena, rest_vars>>

\* the block is finished and a SinkBlockIter is made over it
FinishBlock ==
    /\ block.pc = "building"
    /\ Len(block.pushed) > 0
    /\ block' = [pc |-> "iterating", pushed |-> block.pushed,
                 blk |-> BlockOf(block.backend), it |-> NewSinkBlockIter,
                 fwd |-> <<>>, back |-> <<>>,
                 fwd_done |-> FALSE, back_done |-> FALSE]
    /\ UNCHANGED <<opening, table_iter, builder, vlog, arena, rest_vars>>

\* one call of SinkBlockIter::next; a true return yields key() and value()
IterNext ==
    /\ block.pc = "iterating"
    /\ LET r == BlockNext(block.it, block.blk) IN
       block' = [block EXCEPT
           !.it = r.it,
           !.fwd = IF r.ret
                   THEN Append(@, <<BlockKey(r.it)[1], BlockValue(r.it, block.blk)[1]>>)
                   ELSE @,
           !.fwd_done = @ \/ (~r.ret /\ ~r.panic),
           !.pc = IF r.panic THEN "panicked" ELSE @]
    /\ UNCHANGED <<opening, table_iter, builder, vlog, arena, rest_vars>>

\* one call of SinkBlockIter::next_back; a true return yields key_back() and
\* value_back()
IterNextBack ==
    /\ block.pc = "iterating"
    /\ LET r == BlockNextBack(block.it, block.blk) IN
       block' = [block EXCEPT
           !.it = r.it,
           !.back = IF r.ret
                    THEN Append(@, <<BlockKeyBack(r.it)[1], BlockValueBack(r.it, block.blk)[1]>>)
                    ELSE @,
           !.back_done = @ \/ (~r.ret /\ ~r.panic),
           !.pc = IF r.panic THEN "panicked" ELSE @]
    /\ UNCHANGED <<opening, table_iter, builder, vlog, arena, rest_vars>>

BlockSpecNext ==
    \/ \E key_ts \in BlockKeys, value \in BlockValues : PushEntry(key_ts, value)
    \/ FinishBlock
    \/ IterNext
    \/ IterNextBack

InitBlock ==
    /\ RestIdle
    /\ BlockInit
    /\ OpeningIdle /\ TableIterIdle /\ BuilderIdle /\ VlogIdle /\ ArenaIdle
SpecBlock == InitBlock /\ [][BlockSpecNext]_vars

IsPrefix(s, t) == Len(s) <= Len(t) /\ s = SubSeq(t, 1, Len(s))

\* C22: for any non-empty sequence of keys pushed into one block, forward
\* iteration yields the pushed keys in the pushed order and backward
\* iteration yields them in reverse order, each with the value bytes pushed
\* with it; a direction that runs alone stops only after the whole block.
C22_BlockKeyRoundTrip ==
    block.pc \in {"iterating", "panicked"} =>
        /\ IsPrefix(block.fwd, block.pushed)
        /\ IsPrefix(block.back, Reverse(block.pushed))
        /\ (block.fwd_done /\ block.back = <<>>) => block.fwd = block.pushed
        /\ (block.back_done /\ block.fwd = <<>>) => block.back = Reverse(block.pushed)

\* a forward-only scan has ended over a block of three entries holding a key
\* equal to the base key, a shorter one and one sharing no prefix with it
C22_Witness ==
    /\ block.pc = "iterating"
    /\ block.fwd_done
    /\ block.back = <<>>
    /\ Len(block.pushed) = MaxBlockEntries
    /\ LET base == block.pushed[1][1] IN
       /\ Len(base) = 2
       /\ \E i \in 2..Len(block.pushed) : block.pushed[i][1] = base
       /\ \E i \in 2..Len(block.pushed) :
              /\ Len(block.pushed[i][1]) < Len(base)
              /\ block.pushed[i][1][1] # base[1]

\* a backward-only scan has ended over a block of three entries whose
\* overlaps with the base key grow and shrink
C22_WitnessBack ==
    /\ block.pc = "iterating"
    /\ block.back_done
    /\ block.fwd = <<>>
    /\ Len(block.pushed) = MaxBlockEntries
    /\ block.pushed[1][1] = <<1, 2>>
    /\ block.pushed[2][1] = <<2>>
    /\ block.pushed[3][1] = <<1, 1>>

(***************************************************************************)
(* Tables: SinkTableIter (table/read.rs:10-143).  TableInner is not part   *)
(* of the sources: a table is the list of its blocks, block_offsets_len    *)
(* their number, and get_block(i) returns block i or an error.  The keys   *)
(* of a table are strictly increasing, and no block is empty.              *)
(***************************************************************************)
MaxTableEntries == 3

\* keys in the order of the table, and the value stored with each
TableKeyOrder == <<<<1>>, <<1, 1>>, <<1, 2>>, <<2>>, <<2, 1>>>>
TableKeys == 1..(MaxTableEntries + 1)
EntryOf(k) == <<TableKeyOrder[k], IF k % 2 = 0 THEN <<8, 9>> ELSE <<7>>>>

RECURSIVE SortedEntries(_)
\* the entries of the keys S, in key order
SortedEntries(S) ==
    IF S = {} THEN <<>>
    ELSE LET k == MinOf(S) IN <<EntryOf(k)>> \o SortedEntries(S \ {k})

RECURSIVE PushAll(_, _)
\* a BackendBlock after push_entry of every entry
PushAll(b, entries) ==
    IF entries = <<>> THEN b
    ELSE PushAll(push_entry(b, Head(entries)[1], Head(entries)[2]), Tail(entries))

RECURSIVE SplitAt(_, _, _)
\* the entries cut into blocks after the positions cuts, from position from
SplitAt(entries, cuts, from) ==
    IF from > Len(entries) THEN <<>>
    ELSE LET later == {p \in cuts : p >= from /\ p < Len(entries)}
             to == IF later = {} THEN Len(entries) ELSE MinOf(later)
         IN <<SubSeq(entries, from, to)>> \o SplitAt(entries, cuts, to + 1)

\* a table file: its entries and the blocks they were written in
TableOf(S, cuts) ==
    LET entries == SortedEntries(S)
        parts == SplitAt(entries, cuts, 1)
    IN [entries |-> entries,
        blocks |-> [i \in 1..Len(parts) |-> BlockOf(PushAll(NewBackendBlock, parts[i]))]]

TableFiles ==
    {TableOf(S, cuts) :
        S \in {T \in SUBSET TableKeys : Cardinality(T) <= MaxTableEntries},
        cuts \in SUBSET (1..(MaxTableEntries - 1))}

\* TableInner::block_offsets_len
block_offsets_len(t) == Len(t.blocks)

\* double_ended_eq that compares the block indexes only
DoubleEndedEqByBlock(t, block_iter, back_block_iter) ==
    IF block_iter # NoneOpt /\ back_block_iter # NoneOpt
    THEN block_iter[1].block_index # back_block_iter[1].block_index
    ELSE TRUE

\* table/read.rs:39-48
double_ended_eq(t, block_iter, back_block_iter) ==
    IF block_iter # NoneOpt /\ back_block_iter # NoneOpt
    THEN LET blk == t.blocks[block_iter[1].block_index + 1]
             back_blk == t.blocks[back_block_iter[1].block_index + 1]
         IN ~(/\ BlockKey(block_iter[1].it) = BlockKeyBack(back_block_iter[1].it)
              /\ BlockValue(block_iter[1].it, blk) = BlockValueBack(back_block_iter[1].it, back_blk))
    ELSE TRUE

\* Ok(ret) or Err of a table call, with the iterator it leaves
TableOk(ret, iter) == [ret |-> ret, err |-> FALSE, iter |-> iter]
TableErr(iter) == [ret |-> FALSE, err |-> TRUE, iter |-> iter]

\* table/read.rs:73-79: get_block(new_block_index)?, then the first next
LoadNext(t, bad, back_block_iter, new_block_index) ==
    IF new_block_index \in bad THEN TableErr(NoneOpt)
    ELSE LET r == BlockNext(NewSinkBlockIter, t.blocks[new_block_index + 1])
             iter == Some([block_index |-> new_block_index, it |-> r.it])
         IN IF r.ret THEN TableOk(double_ended_eq(t, iter, back_block_iter), iter)
            ELSE TableOk(FALSE, iter)

\* table/read.rs:51-80: SinkTableIter::next; iter of an error is the
\* block_iter the call leaves, which is the one it found
TableNext(t, bad, block_iter, back_block_iter) ==
    IF ~double_ended_eq(t, block_iter, back_block_iter) THEN TableOk(FALSE, block_iter)
    ELSE IF block_iter # NoneOpt
    THEN LET r == BlockNext(block_iter[1].it, t.blocks[block_iter[1].block_index + 1])
             iter == Some([block_iter[1] EXCEPT !.it = r.it])
         IN IF r.ret THEN TableOk(double_ended_eq(t, iter, back_block_iter), iter)
            ELSE IF block_iter[1].block_index = block_offsets_len(t) - 1
            THEN TableOk(FALSE, iter)
            ELSE LET l == LoadNext(t, bad, back_block_iter, block_iter[1].block_index + 1)
                 IN IF l.err THEN TableErr(iter) ELSE l
    ELSE IF block_offsets_len(t) = 0 THEN TableOk(FALSE, block_iter)
    ELSE LET l == LoadNext(t, bad, back_block_iter, 0)
         IN IF l.err THEN TableErr(block_iter) ELSE l

\* table/read.rs:105-111: get_block(new_block_index)?, then the first
\* next_back
LoadNextBack(t, bad, block_iter, new_block_index) ==
    IF new_block_index \in bad THEN TableErr(NoneOpt)
    ELSE LET r == BlockNextBack(NewSinkBlockIter, t.blocks[new_block_index + 1])
             iter == Some([block_index |-> new_block_index, it |-> r.it])
         IN IF r.ret THEN TableOk(double_ended_eq(t, block_iter, iter), iter)
            ELSE TableOk(FALSE, iter)

\* table/read.rs:83-112: SinkTableIter::next_back
TableNextBack(t, bad, block_iter, back_block_iter) ==
    IF ~double_ended_eq(t, block_iter, back_block_iter)
    THEN TableOk(FALSE, back_block_iter)
    ELSE IF back_block_iter # NoneOpt
    THEN LET r == BlockNextBack(back_block_iter[1].it,
                                t.blocks[back_block_iter[1].block_index + 1])
             iter == Some([back_block_iter[1] EXCEPT !.it = r.it])
         IN IF r.ret THEN TableOk(double_ended_eq(t, block_iter, iter), iter)
            ELSE IF back_block_iter[1].block_index = 0 THEN TableOk(FALSE, iter)
            ELSE LET l == LoadNextBack(t, bad, block_iter, back_block_iter[1].block_index - 1)
                 IN IF l.err THEN TableErr(iter) ELSE l
    ELSE IF block_offsets_len(t) = 0 THEN TableOk(FALSE, back_block_iter)
    ELSE LET l == LoadNextBack(t, bad, block_iter, block_offsets_len(t) - 1)
         IN IF l.err THEN TableErr(back_block_iter) ELSE l

\* table/read.rs:114-142: key()/value() and key_back()/value_back() of the
\* table iterator
TableEntry(t, block_iter) ==
    IF block_iter = NoneOpt THEN NoneOpt
    ELSE Some(<<BlockKey(block_iter[1].it)[1],
                BlockValue(block_iter[1].it, t.blocks[block_iter[1].block_index + 1])[1]>>)
TableEntryBack(t, back_block_iter) ==
    IF back_block_iter = NoneOpt THEN NoneOpt
    ELSE Some(<<BlockKeyBack(back_block_iter[1].it)[1],
                BlockValueBack(back_block_iter[1].it,
                               t.blocks[back_block_iter[1].block_index + 1])[1]>>)

\* the block indexes whose get_block fails: none, or one block
BadBlocks(t) == {{}} \cup {{i} : i \in 0..(block_offsets_len(t) - 1)}

\* TableInner::iter over a table; fwd and back are the entries yielded so
\* far, fpos and bpos the entries each cursor has stepped onto
TableIterInit ==
    \E t \in TableFiles : \E bad \in BadBlocks(t) :
        table_iter = [pc |-> "scanning", t |-> t, bad |-> bad,
                      block_iter |-> NoneOpt, back_block_iter |-> NoneOpt,
                      fwd |-> <<>>, back |-> <<>>, fpos |-> 0, bpos |-> 0,
                      last |-> [op |-> "iter", ret |-> FALSE, err |-> FALSE],
                      fwd_false |-> FALSE, back_false |-> FALSE, erred |-> FALSE]

\* whether the call moved the block cursor of its direction
Stepped(before, after) == after # NoneOpt /\ before # after

\* one call of SinkTableIter::next
IterTableNext ==
    /\ table_iter.pc = "scanning"
    /\ LET r == TableNext(table_iter.t, table_iter.bad,
                          table_iter.block_iter, table_iter.back_block_iter) IN
       table_iter' = [table_iter EXCEPT
           !.block_iter = r.iter,
           !.fwd = IF r.ret THEN Append(@, TableEntry(table_iter.t, r.iter)[1]) ELSE @,
           !.fpos = IF Stepped(table_iter.block_iter, r.iter) THEN @ + 1 ELSE @,
           !.last = [op |-> "next", ret |-> r.ret, err |-> r.err],
           !.fwd_false = ~r.ret /\ ~r.err,
           !.erred = @ \/ r.err]
    /\ UNCHANGED <<opening, block, builder, vlog, arena, rest_vars>>

\* one call of SinkTableIter::next_back
IterTableNextBack ==
    /\ table_iter.pc = "scanning"
    /\ LET r == TableNextBack(table_iter.t, table_iter.bad,
                              table_iter.block_iter, table_iter.back_block_iter) IN
       table_iter' = [table_iter EXCEPT
           !.back_block_iter = r.iter,
           !.back = IF r.ret THEN Append(@, TableEntryBack(table_iter.t, r.iter)[1]) ELSE @,
           !.bpos = IF Stepped(table_iter.back_block_iter, r.iter) THEN @ + 1 ELSE @,
           !.last = [op |-> "next_back", ret |-> r.ret, err |-> r.err],
           !.back_false = ~r.ret /\ ~r.err,
           !.erred = @ \/ r.err]
    /\ UNCHANGED <<opening, block, builder, vlog, arena, rest_vars>>

TableIterNext ==
    \/ IterTableNext
    \/ IterTableNextBack

InitTableIter ==
    /\ RestIdle
    /\ TableIterInit
    /\ OpeningIdle /\ BlockIdle /\ BuilderIdle /\ VlogIdle /\ ArenaIdle
SpecTableIter == InitTableIter /\ [][TableIterNext]_vars

\* both cursors are on an entry and it is the same entry
CursorsMeet ==
    /\ table_iter.block_iter # NoneOpt
    /\ table_iter.back_block_iter # NoneOpt
    /\ TableEntry(table_iter.t, table_iter.block_iter)
           = TableEntryBack(table_iter.t, table_iter.back_block_iter)

C23_Step ==
    /\ table_iter.pc = "scanning"
    /\ table_iter'.pc = "scanning"
    /\ table_iter' # table_iter

\* C23: without read errors, whatever the interleaving of next and
\* next_back on one table iterator, no entry is yielded by both directions
\* or twice; once both cursors are on the same entry every call returns
\* false; and when both directions have returned false, exactly the n
\* entries of the table have been yielded.
C23_DoubleEndedScan ==
    [][C23_Step /\ ~table_iter'.erred =>
          /\ IsPrefix(table_iter'.fwd, table_iter.t.entries)
          /\ IsPrefix(table_iter'.back, Reverse(table_iter.t.entries))
          /\ Len(table_iter'.fwd) + Len(table_iter'.back) <= Len(table_iter.t.entries)
          /\ CursorsMeet => ~table_iter'.last.ret
          /\ (table_iter'.fwd_false /\ table_iter'.back_false) =>
                 Len(table_iter'.fwd) + Len(table_iter'.back) = Len(table_iter.t.entries)
      ]_vars

\* a table of three entries in two blocks has been scanned from both ends,
\* both directions yielded entries, the cursors met and both calls have
\* returned false
C23_Witness ==
    /\ table_iter.pc = "scanning"
    /\ ~table_iter.erred
    /\ Len(table_iter.t.entries) = MaxTableEntries
    /\ block_offsets_len(table_iter.t) = 2
    /\ Len(table_iter.fwd) > 0
    /\ Len(table_iter.back) > 0
    /\ CursorsMeet
    /\ table_iter.fwd_false
    /\ table_iter.back_false

(***************************************************************************)
(* open_tables_by_manifest (levels.rs:295-393).  Throttle is not part of   *)
(* the sources: done_with_future hands the value of a future that returned *)
(* Ok to the task and records the error of one that returned Err; acquire  *)
(* returns a recorded error if one is there already, and finish waits for  *)
(* every task and returns a recorded error if there is one.                *)
(***************************************************************************)
MaxOpenTables == 2
OpenIds == 1..MaxOpenTables

\* what opening the file of a table does: MmapFile::open fails, or
\* Table::open returns the table, a ChecksumError or another error
OpenOutcomes == {"ok", "checksum", "other", "mmap"}

\* manifest.tables: the ids of the manifest, each with its level
ManifestAt(lv) ==
    [NewManifest EXCEPT !.tables = [id \in DOMAIN lv |-> TableManifest(lv[id])],
                        !.creations = Cardinality(DOMAIN lv)]

\* the manifest as replayed, the directory as found, the state of each file
OpenInit ==
    /\ m_cfg = [external_magic_version |-> 0, read_only |-> FALSE]
    /\ m_file = NoFile
    /\ m_log = <<>>
    /\ m_torn = FALSE
    /\ \E ids \in SUBSET OpenIds : \E lv \in [ids -> {0, 1, max_levels}] :
           m_res = [err |-> "none", manifest |-> ManifestAt(lv)]
    /\ next_file_id = 0
    /\ reserved = <<>>
    /\ dir \in SUBSET OpenIds
    /\ reverted = NotCalled
    /\ \E files \in [OpenIds -> OpenOutcomes] :
           opening = [pc |-> "start", files |-> files, result |-> [err |-> "not called"]]

\* the future that ignores every error of Table::open
OpenFutureIgnoringAll(outcome) ==
    IF outcome = "mmap" THEN [err |-> "mmap"]
    ELSE IF outcome = "ok" THEN [err |-> "none", table |-> TRUE]
    ELSE [err |-> "none", table |-> FALSE]

\* levels.rs:334-356: the future of one table; Ok(Some(table)), Ok(None)
\* or Err
OpenFuture(outcome) ==
    IF outcome = "mmap" THEN [err |-> "mmap"]
    ELSE IF outcome = "ok" THEN [err |-> "none", table |-> TRUE]
    ELSE IF outcome = "checksum" THEN [err |-> "none", table |-> FALSE]
    ELSE [err |-> "Opening table"]

\* levels.rs:366-371: the level list a task is pushed to
TaskLevel(level) == IF level < max_levels THEN level ELSE max_levels - 1

\* levels.rs:313-393 after revert_to_manifest: the results the spawned
\* tasks and the throttle can give.  The tasks run concurrently, so which
\* of several errors the throttle returns is open; level_tables[l] is kept
\* as the set of the ids it holds (the HashMap is walked in any order).
OpenTables(manifest, files) ==
    LET ids == DOMAIN manifest.tables
        errs == {OpenFuture(files[id]).err : id \in ids} \ {"none"}
        opened(l) == {id \in ids : /\ TaskLevel(manifest.tables[id].level) = l - 1
                                   /\ OpenFuture(files[id]).table}
    IN IF errs # {}
       THEN {[err |-> e] : e \in errs}
       ELSE {[err |-> "none",
              max_file_id |-> IF ids = {} THEN 0 ELSE Max(ids),
              level_tables |-> [l \in 1..max_levels |-> opened(l)]]}

\* levels.rs:295-393: open_tables_by_manifest
OpenTablesByManifest ==
    /\ opening.pc = "start"
    /\ \E r \in revert_to_manifest(m_res.manifest, dir) :
          /\ dir' = dir \ r.removed
          /\ reverted' = r
          /\ IF r.err # "none"
             THEN opening' = [opening EXCEPT !.pc = "done", !.result = [err |-> r.err]]
             ELSE \E o \in OpenTables(m_res.manifest, opening.files) :
                      opening' = [opening EXCEPT !.pc = "done", !.result = o]
    /\ UNCHANGED <<next_file_id, reserved, block, table_iter, builder, vlog, arena,
                   table_locks, oracle_vars, cl, manifest_vars, compact_vars>>

\* a store being opened, or a table of an open store being scanned with a
\* block that fails to load
InitOpenRead ==
    \/ /\ OracleInit(FALSE)
       /\ config = DetectingConfig
       /\ CleanupIdle
       /\ CompactIdle
       /\ OpenInit
       /\ BlockIdle /\ TableIterIdle /\ BuilderIdle /\ VlogIdle /\ ArenaIdle /\ LocksIdle
    \/ /\ InitTableIter
       /\ table_iter.bad # {}

OpenReadNext ==
    \/ OpenTablesByManifest
    \/ IterTableNext
    \/ IterTableNextBack

SpecOpenRead == InitOpenRead /\ [][OpenReadNext]_vars

\* the tables of the manifest whose open gives outcome
TablesWith(outcomes) ==
    {id \in DOMAIN m_res.manifest.tables : opening.files[id] \in outcomes}

\* the entries of the blocks before block index k
RECURSIVE BlockStart(_, _)
BlockStart(t, k) ==
    IF k = 0 THEN 0 ELSE BlockStart(t, k - 1) + Len(t.blocks[k].entry_offsets)

\* the next call of next, or of next_back, has to load block index k
ForwardLoads(k) ==
    /\ ~CursorsMeet
    /\ k < block_offsets_len(table_iter.t)
    /\ table_iter.fpos = BlockStart(table_iter.t, k)
BackLoads(k) ==
    /\ ~CursorsMeet
    /\ k < block_offsets_len(table_iter.t)
    /\ table_iter.bpos = Len(table_iter.t.entries) - BlockStart(table_iter.t, k + 1)

\* C21: once the directory agrees with the manifest, a table whose open
\* fails with a checksum error is left out of its level's list while every
\* other table is opened and the open succeeds, and any other open error
\* makes the whole open fail; in a scan, a call that has to load a block
\* whose load fails returns the error and yields no entry.
C21_ChecksumAtOpenAndRead ==
    [][/\ (opening.pc = "start" /\ opening'.pc = "done" /\ reverted'.err = "none") =>
             IF TablesWith({"other", "mmap"}) = {}
             THEN /\ opening'.result.err = "none"
                  /\ \A id \in TablesWith({"ok"}) :
                         id \in opening'.result.level_tables[
                                    TaskLevel(m_res.manifest.tables[id].level) + 1]
                  /\ \A id \in TablesWith({"checksum"}) : \A l \in 1..max_levels :
                         id \notin opening'.result.level_tables[l]
             ELSE opening'.result.err \notin {"none", "not called"}
       /\ (C23_Step /\ table_iter'.last.op = "next"
               /\ \E k \in table_iter.bad : ForwardLoads(k)) =>
             /\ table_iter'.last.err
             /\ ~table_iter'.last.ret
             /\ table_iter'.fwd = table_iter.fwd
       /\ (C23_Step /\ table_iter'.last.op = "next_back"
               /\ \E k \in table_iter.bad : BackLoads(k)) =>
             /\ table_iter'.last.err
             /\ ~table_iter'.last.ret
             /\ table_iter'.back = table_iter.back
      ]_vars

\* an open has succeeded with one table left out for its checksum and the
\* other in its level's list
C21_Witness ==
    /\ opening.pc = "done"
    /\ opening.result.err = "none"
    /\ TablesWith({"checksum"}) # {}
    /\ \E id \in TablesWith({"ok"}) :
           id \in opening.result.level_tables[TaskLevel(m_res.manifest.tables[id].level) + 1]

\* an open has failed for an error of Table::open that is no checksum error
C21_WitnessFatal ==
    /\ opening.pc = "done"
    /\ reverted.err = "none"
    /\ TablesWith({"other"}) # {}
    /\ opening.result.err = "Opening table"

\* a scan has yielded the entries of its first block and its next call
\* returned the error of loading the second
C21_WitnessRead ==
    /\ table_iter.pc = "scanning"
    /\ table_iter.last = [op |-> "next", ret |-> FALSE, err |-> TRUE]
    /\ Len(table_iter.fwd) > 0

(***************************************************************************)
(* TableBuilder (table/write.rs:72-251): push_internal, finish_cur_block   *)
(* and done.  Every closed block is handed to a spawn_fifo task that       *)
(* compresses it; the tasks finish in any order.  The tasks keep, beside   *)
(* the BackendBlock, the entries that were pushed into it.                 *)
(***************************************************************************)
MaxBuilderEntries == 3

\* opt.block_size(): one entry a block, or two
BlockSizes == {36, 48}
\* opt.compression(): CompressionType::None or a codec
Compressions == {"None", "Snappy"}

\* compression.compress(data): the length of the input, then the bytes
Compress(data) == <<Len(data)>> \o data

\* table/write.rs:104-120, without a cipher
should_finish_block(b, key, value, block_size) ==
    IF Len(b.entry_offsets) = 0 THEN FALSE
    ELSE LET entries_offsets_size == (Len(b.entry_offsets) + 1) * 4 + 4 + 8 + 4
             estimate_size == Len(b.data) + 6 + Len(key) + Len(value) + entries_offsets_size
         IN estimate_size > block_size

\* table/write.rs:137-145: finish_block, without the checksum record
finish_block(b) ==
    [b EXCEPT !.data = b.data \o OffsetBytes(b.entry_offsets) \o PutU32(Len(b.entry_offsets))]

NewBuilderBlock == [backend |-> NewBackendBlock, entries |-> <<>>]

\* finish_cur_block that also closes a block without entries
FinishCurBlockAlways(bl) ==
    [bl EXCEPT
        !.cur_block = NewBuilderBlock,
        !.compress_task = Append(@, [block |-> [bl.cur_block EXCEPT
                                                   !.backend = finish_block(@)],
                                     state |-> "running"])]

\* table/write.rs:168-202: the task is spawned and runs on its own
finish_cur_block(bl) ==
    IF Len(bl.cur_block.backend.entry_offsets) = 0 THEN bl
    ELSE [bl EXCEPT
        !.cur_block = NewBuilderBlock,
        !.compress_task = Append(@, [block |-> [bl.cur_block EXCEPT
                                                   !.backend = finish_block(@)],
                                     state |-> "running"])]

\* table/write.rs:156-167
push_internal(bl, key_ts, value) ==
    LET closed == IF should_finish_block(bl.cur_block.backend, key_ts, value, bl.block_size)
                  THEN finish_cur_block(bl)
                  ELSE bl
    IN [closed EXCEPT
           !.cur_block = [backend |-> push_entry(closed.cur_block.backend, key_ts, value),
                          entries |-> Append(closed.cur_block.entries, <<key_ts, value>>)]]

\* TableBuilder::new
BuilderInit ==
    \E block_size \in BlockSizes, compression \in Compressions :
        builder = [pc |-> "building", block_size |-> block_size,
                   compression |-> compression,
                   cur_block |-> NewBuilderBlock, compress_task |-> <<>>,
                   pushed |-> <<>>, awaited |-> 0, block_list |-> <<>>,
                   result |-> "none"]

\* table/write.rs:203-205: push
BuilderPush(key_ts, value) ==
    /\ builder.pc = "building"
    /\ Len(builder.pushed) < MaxBuilderEntries
    /\ builder' = [push_internal(builder, key_ts, value) EXCEPT
                      !.pushed = Append(builder.pushed, <<key_ts, value>>)]
    /\ UNCHANGED <<opening, block, table_iter, vlog, arena, rest_vars>>

\* table/write.rs:182-201: the closure of task i returns, Ok with the block
\* compressed or Err
TaskReturns(i, ok) ==
    /\ builder.pc # "off"
    /\ i \in 1..Len(builder.compress_task)
    /\ builder.compress_task[i].state = "running"
    /\ ok \/ builder.compression # "None"
    /\ builder' = [builder EXCEPT
           !.compress_task[i].state = IF ok THEN "ok" ELSE "err",
           !.compress_task[i].block.backend.data =
               IF ok /\ builder.compression # "None" THEN Compress(@) ELSE @]
    /\ UNCHANGED <<opening, block, table_iter, vlog, arena, rest_vars>>

\* table/write.rs:240-242: done is called; the current block is closed
DoneCalled ==
    /\ builder.pc = "building"
    /\ builder' = [finish_cur_block(builder) EXCEPT !.pc = "awaiting"]
    /\ UNCHANGED <<opening, block, table_iter, vlog, arena, rest_vars>>

\* table/write.rs:243-247: task.await? of the next task in the order of
\* compress_task, once that task has returned; Ok(()) after the last
DoneAwaits ==
    /\ builder.pc = "awaiting"
    /\ IF builder.awaited = Len(builder.compress_task)
       THEN builder' = [builder EXCEPT !.pc = "returned", !.result = "Ok"]
       ELSE LET task == builder.compress_task[builder.awaited + 1] IN
            /\ task.state # "running"
            /\ builder' = IF task.state = "ok"
                          THEN [builder EXCEPT !.awaited = @ + 1,
                                               !.block_list = Append(@, task.block)]
                          ELSE [builder EXCEPT !.pc = "returned", !.result = "Err"]
    /\ UNCHANGED <<opening, block, table_iter, vlog, arena, rest_vars>>

BuilderNext ==
    \/ \E key_ts \in BlockKeys, value \in BlockValues : BuilderPush(key_ts, value)
    \/ \E i \in 1..MaxBuilderEntries, ok \in BOOLEAN : TaskReturns(i, ok)
    \/ DoneCalled
    \/ DoneAwaits

InitBuilder ==
    /\ RestIdle
    /\ BuilderInit
    /\ OpeningIdle /\ BlockIdle /\ TableIterIdle /\ VlogIdle /\ ArenaIdle
SpecBuilder == InitBuilder /\ [][BuilderNext]_vars

RECURSIVE Flatten(_)
\* the entries of a list of blocks, in order
Flatten(blocks) ==
    IF blocks = <<>> THEN <<>> ELSE Head(blocks).entries \o Flatten(Tail(blocks))

\* C24: whatever the order in which the compression tasks finish, when done
\* returns Ok the current block was closed, every task has finished, the
\* collected blocks are the closed blocks in the order of closing, they hold
\* every pushed entry exactly once and none is empty; when a task has
\* failed, done does not return Ok.
C24_DoneCollectsInOrder ==
    builder.pc = "returned" =>
        /\ builder.cur_block.entries = <<>>
        /\ builder.result = "Ok" =>
               /\ \A i \in 1..Len(builder.compress_task) :
                      builder.compress_task[i].state = "ok"
               /\ builder.block_list =
                      [i \in 1..Len(builder.compress_task) |-> builder.compress_task[i].block]
               /\ Flatten(builder.block_list) = builder.pushed
               /\ \A i \in 1..Len(builder.block_list) :
                      Len(builder.block_list[i].entries) > 0
        /\ (\E i \in 1..Len(builder.compress_task) :
                builder.compress_task[i].state = "err") => builder.result = "Err"

\* done has returned Ok over three entries in two blocks, the last closed by
\* done itself
C24_Witness ==
    /\ builder.pc = "returned"
    /\ builder.result = "Ok"
    /\ Len(builder.pushed) = MaxBuilderEntries
    /\ Len(builder.block_list) = 2
    /\ Len(builder.block_list[2].entries) = 1

(***************************************************************************)
(* ValueLog::write and validate_write (vlog/write.rs).  ValueLog, WriteReq,*)
(* DecEntry and ValuePointer are not part of the sources: an entry records *)
(* its value threshold the first time one is set, the default ValuePointer *)
(* is the empty one, and a segment is the bytes of its log file.  Sizes    *)
(* are scaled down: a record with its estimate of 34 bytes of overhead     *)
(* fits a segment once or twice.                                           *)
(***************************************************************************)
MaxReqs == 2
MaxReqEntries == 2

MAX_HEADER_SIZE == 22
SIZE_OF_TXN_TS == 8
SIZE_OF_U32 == 4
\* the hard maximum size of a segment
MAX_VLOG_FILE_SIZE == 90
\* opt.vlog_file_size, the configured size of a segment
VlogFileSizes == {56, 80}
\* writable_log_offset when the batch arrives: behind the header or later
WritableOffsets == {20, 40}
\* threshold.value_threshold()
ValueThresholds == {1, 2}

VlogKeys == {<<1>>}
\* a value below every threshold, one at or above, and a long one
LongValue == [i \in 1..40 |-> 5]
VlogValues == {<<7>>, <<8, 9>>, LongValue}

\* ValuePointer::default() and ValuePointer::new(fid, len, offset)
EmptyValuePointer == [fid |-> 0, len |-> 0, offset |-> 0]
ValuePointer(fid, len, offset) == [fid |-> fid, len |-> len, offset |-> offset]

\* a DecEntry of a request with the ValuePointer it arrives with
ReqEntries ==
    [key : VlogKeys, value : VlogValues, value_threshold : {0}, meta : {0},
     vptr : {EmptyValuePointer, ValuePointer(9, 9, 9)}]
WriteReqs == UNION {[1..n -> ReqEntries] : n \in 1..MaxReqEntries}
Batches == UNION {[1..n -> WriteReqs] : n \in 1..MaxReqs}

\* KeyTs::get_bytes: the key and its 8-byte timestamp
KeyTsBytes(key) == key \o <<0, 0, 0, 0, 0, 0, 0, 1>>

\* vlog/header.rs:30-38: meta, user_meta and the varints of key length,
\* value length and expires_at, each of one byte here
EncodeHeader(e) == <<e.meta, 0, Len(KeyTsBytes(e.key)), Len(e.value), 0>>

\* vlog/write.rs:121-141: the bytes encode_entry leaves in buf, without a
\* cipher
encode_entry(e) ==
    LET hashed == EncodeHeader(e) \o KeyTsBytes(e.key) \o e.value
    IN hashed \o PutU32(Crc32(hashed))

RECURSIVE ReqSize(_)
\* vlog/write.rs:87-93: the estimated size of a request
ReqSize(req) ==
    IF req = <<>> THEN 0
    ELSE MAX_HEADER_SIZE + Len(Head(req).key) + SIZE_OF_TXN_TS + Len(Head(req).value)
             + SIZE_OF_U32 + ReqSize(Tail(req))

RECURSIVE validate_write(_, _, _)
\* vlog/write.rs:83-110, from self.writable_log_offset()
validate_write(reqs, vlog_offset, vlog_file_size) ==
    IF reqs = <<>> THEN "Ok"
    ELSE LET estimate == vlog_offset + ReqSize(Head(reqs)) IN
         IF estimate > MAX_VLOG_FILE_SIZE THEN "Err"
         ELSE IF estimate >= vlog_file_size
         THEN validate_write(Tail(reqs), 0, vlog_file_size)
         ELSE validate_write(Tail(reqs), estimate, vlog_file_size)

\* DecEntry::try_set_value_threshold
try_set_value_threshold(e, threshold) ==
    IF e.value_threshold = 0 THEN [e EXCEPT !.value_threshold = threshold] ELSE e

\* vlog/write.rs:56-76: one entry of a request.  encode_entry fills the
\* local buf, which the next entry clears; nothing is written to the log
\* file and writable_log_offset is not advanced.
WriteEntry(e, fid, offset, threshold) ==
    LET dec_entry == try_set_value_threshold(e, threshold) IN
    IF Len(dec_entry.value) < dec_entry.value_threshold
    THEN [dec_entry EXCEPT !.vptr = IF @ # EmptyValuePointer THEN EmptyValuePointer ELSE @]
    ELSE [dec_entry EXCEPT !.vptr = ValuePointer(fid, Len(encode_entry(dec_entry)), offset)]

\* a ValueLog with one writable segment
VlogInit ==
    \E offset \in WritableOffsets, size \in VlogFileSizes, threshold \in ValueThresholds :
        vlog = [pc |-> "open", max_fid |-> 1, writable_log_offset |-> offset,
                vlog_file_size |-> size, threshold |-> threshold,
                files |-> <<[i \in 1..offset |-> 0]>>,
                reqs |-> <<>>, result |-> "none"]

\* vlog/write.rs:39-82: ValueLog::write
VlogWrite(reqs) ==
    /\ vlog.pc = "open"
    /\ vlog.result = "none"
    /\ vlog' = IF validate_write(reqs, vlog.writable_log_offset, vlog.vlog_file_size) = "Err"
               THEN [vlog EXCEPT !.reqs = reqs, !.result = "Err"]
               ELSE [vlog EXCEPT
                   !.reqs = [r \in 1..Len(reqs) |-> [i \in 1..Len(reqs[r]) |->
                                WriteEntry(reqs[r][i], vlog.max_fid,
                                           vlog.writable_log_offset, vlog.threshold)]],
                   !.result = "Ok"]
    /\ UNCHANGED <<opening, block, table_iter, builder, arena, rest_vars>>

\* the caller takes the result and the pointers of the batch
BatchReturned ==
    /\ vlog.pc = "open"
    /\ vlog.result # "none"
    /\ vlog' = [vlog EXCEPT !.reqs = <<>>, !.result = "none"]
    /\ UNCHANGED <<opening, block, table_iter, builder, arena, rest_vars>>

VlogNext ==
    \/ \E reqs \in Batches : VlogWrite(reqs)
    \/ BatchReturned

InitVlog ==
    /\ RestIdle
    /\ VlogInit
    /\ OpeningIdle /\ BlockIdle /\ TableIterIdle /\ BuilderIdle /\ ArenaIdle
SpecVlog == InitVlog /\ [][VlogNext]_vars

\* the entries of the batch as write left them
WrittenEntries ==
    UNION {{vlog.reqs[r][i] : i \in 1..Len(vlog.reqs[r])} : r \in 1..Len(vlog.reqs)}

\* C25: after a write, an entry whose value is shorter than its threshold
\* has the empty ValuePointer, and any other entry has a ValuePointer of the
\* writable segment whose bytes at that offset are the encoded record of the
\* entry's key and value.
C25_WriteStoresRecord ==
    (vlog.pc = "open" /\ vlog.result = "Ok") =>
        \A e \in WrittenEntries :
            IF Len(e.value) < e.value_threshold
            THEN e.vptr = EmptyValuePointer
            ELSE /\ e.vptr.fid = vlog.max_fid
                 /\ e.vptr.len = Len(encode_entry(e))
                 /\ e.vptr.offset + e.vptr.len <= Len(vlog.files[e.vptr.fid])
                 /\ SubSeq(vlog.files[e.vptr.fid], e.vptr.offset + 1,
                           e.vptr.offset + e.vptr.len) = encode_entry(e)

\* the half of C25 that holds: a value below its threshold stays inline,
\* and any other entry gets a pointer of the writable segment with the
\* length of its encoded record
InlineBelowThreshold ==
    (vlog.pc = "open" /\ vlog.result = "Ok") =>
        \A e \in WrittenEntries :
            IF Len(e.value) < e.value_threshold
            THEN e.vptr = EmptyValuePointer
            ELSE e.vptr = ValuePointer(vlog.max_fid, Len(encode_entry(e)),
                                       vlog.writable_log_offset)

\* the offset request i is estimated from: the writable offset for the
\* first, then the end of the request before, or 0 once that end has
\* reached the configured segment size
RECURSIVE StartOffset(_, _)
StartOffset(reqs, i) ==
    IF i = 1 THEN vlog.writable_log_offset
    ELSE LET end == StartOffset(reqs, i - 1) + ReqSize(reqs[i - 1])
         IN IF end >= vlog.vlog_file_size THEN 0 ELSE end

Rejected(reqs) ==
    \E i \in 1..Len(reqs) : StartOffset(reqs, i) + ReqSize(reqs[i]) > MAX_VLOG_FILE_SIZE

\* C26: write rejects exactly the batches in which some request's
\* estimated end lies beyond the hard maximum segment size, and then
\* changes nothing; a record of an accepted batch lies within one segment:
\* its pointer names the writable segment and ends within the hard maximum.
C26_SegmentBounds ==
    [][vlog'.pc = "open" /\ vlog'.result # "none" /\ vlog' # vlog =>
          /\ (vlog'.result = "Err") <=> Rejected(vlog'.reqs)
          /\ vlog'.files = vlog.files
          /\ vlog'.writable_log_offset = vlog.writable_log_offset
          /\ vlog'.result = "Ok" =>
                 \A r \in 1..Len(vlog'.reqs) : \A i \in 1..Len(vlog'.reqs[r]) :
                     LET vptr == vlog'.reqs[r][i].vptr IN
                     vptr # EmptyValuePointer =>
                         /\ vptr.fid = vlog.max_fid
                         /\ vptr.offset + vptr.len <= MAX_VLOG_FILE_SIZE
      ]_vars

\* the half of C26 that holds: validate_write rejects exactly the batches
\* the restart rule describes, and a rejected batch changes nothing
ValidateWriteRejects ==
    [][vlog'.pc = "open" /\ vlog'.result # "none" /\ vlog' # vlog =>
          /\ (vlog'.result = "Err") <=> Rejected(vlog'.reqs)
          /\ vlog'.result = "Err" =>
                 /\ vlog'.files = vlog.files
                 /\ vlog'.writable_log_offset = vlog.writable_log_offset
                 /\ \A r \in 1..Len(vlog'.reqs) : \A i \in 1..Len(vlog'.reqs[r]) :
                        vlog'.reqs[r][i].value_threshold = 0
      ]_vars

(***************************************************************************)
(* Arena (skl/arena.rs): one chunk obtained at construction, and           *)
(* alloc_layout called by concurrent threads.  Pointers are addresses; the *)
(* chunk starts at an address that is a multiple of CHUNK_ALIGN.           *)
(***************************************************************************)
NumAllocators == 2
MaxAllocs == 3

CHUNK_ALIGN == 16
PAGE_CUTOFF == 4096
DEFAULT_ALIGN == 8

Allocators == 1..NumAllocators
\* Arena::new(size) as called, and the Layouts handed to alloc_layout
ArenaSizes == {10, 30}
Layouts == [size : {0, 1, 8, 12}, align : {1, 8, 16}]
\* the address alloc(layout) returned
ChunkStart == 2 * CHUNK_ALIGN

\* skl/arena.rs:141-145: (n + divisor - 1) & !(divisor - 1) for a divisor
\* that is a power of two
round_up_to(n, divisor) == ((n + divisor - 1) \div divisor) * divisor

\* Layout::align_to
align_to(layout, align) ==
    [layout EXCEPT !.align = IF layout.align > align THEN layout.align ELSE align]

\* alloc_size without the rounding
AllocSizeUnrounded(layout) == layout.size

\* skl/arena.rs:92-95: alloc_size of a call
AllocSize(layout) ==
    LET aligned == align_to(layout, DEFAULT_ALIGN)
    IN round_up_to(aligned.size, aligned.align)

\* skl/arena.rs:41-67: Arena::new; layout is the size of the chunk
NewArena(size) ==
    LET rounded == round_up_to(size, CHUNK_ALIGN)
        request_size == IF rounded >= PAGE_CUTOFF
                        THEN round_up_to(rounded, PAGE_CUTOFF)
                        ELSE rounded
    IN [start |-> ChunkStart, ptr |-> ChunkStart, end |-> ChunkStart + request_size,
        layout |-> request_size]

Idle == [pc |-> "idle"]

ArenaInit ==
    \E size \in ArenaSizes :
        arena = [pc |-> "live", a |-> NewArena(size), size |-> size,
                 calls |-> [t \in Allocators |-> Idle],
                 regions |-> <<>>, panics |-> <<>>, started |-> 0]

\* skl/arena.rs:90-98: thread t calls alloc_layout; fetch_ptr_add is the one
\* access to the shared pointer
FetchPtrAdd(t, layout) ==
    /\ arena.pc = "live"
    /\ arena.calls[t].pc = "idle"
    /\ arena.started < MaxAllocs
    /\ LET alloc_size == AllocSize(layout) IN
       arena' = [arena EXCEPT
           !.a.ptr = @ + alloc_size,
           !.started = @ + 1,
           !.calls[t] = [pc |-> "added", old_ptr |-> arena.a.ptr,
                         alloc_size |-> alloc_size]]
    /\ UNCHANGED <<opening, block, table_iter, builder, vlog, rest_vars>>

\* skl/arena.rs:99-112: the call of thread t compares new_ptr with end and
\* returns old_ptr or panics
AllocReturns(t) ==
    /\ arena.pc = "live"
    /\ arena.calls[t].pc = "added"
    /\ LET call == arena.calls[t]
           new_ptr == call.old_ptr + call.alloc_size
       IN arena' = [arena EXCEPT
              !.calls[t] = Idle,
              !.regions = IF new_ptr > arena.a.end THEN @
                          ELSE Append(@, [from |-> call.old_ptr, to |-> new_ptr]),
              !.panics = IF new_ptr > arena.a.end
                         THEN Append(@, [from |-> call.old_ptr, to |-> new_ptr])
                         ELSE @]
    /\ UNCHANGED <<opening, block, table_iter, builder, vlog, rest_vars>>

ArenaNext ==
    \/ \E t \in Allocators, layout \in Layouts : FetchPtrAdd(t, layout)
    \/ \E t \in Allocators : AllocReturns(t)

InitArena ==
    /\ RestIdle
    /\ ArenaInit
    /\ OpeningIdle /\ BlockIdle /\ TableIterIdle /\ BuilderIdle /\ VlogIdle
SpecArena == InitArena /\ [][ArenaNext]_vars

\* C27: whatever the interleaving of the calls, every region alloc_layout
\* returned starts at a multiple of 8, lies within the chunk and shares no
\* byte with another returned region; every call that panicked had a region
\* ending beyond the chunk; and the chunk is the one made at construction.
C27_ArenaAllocation ==
    arena.pc = "live" =>
        /\ \A i \in 1..Len(arena.regions) :
               LET r == arena.regions[i] IN
               /\ r.from % 8 = 0
               /\ arena.a.start <= r.from
               /\ r.to <= arena.a.end
               /\ \A j \in 1..Len(arena.regions) :
                      i # j => (r.to <= arena.regions[j].from
                                \/ arena.regions[j].to <= r.from)
        /\ \A i \in 1..Len(arena.panics) : arena.panics[i].to > arena.a.end
        /\ arena.a.end - arena.a.start = NewArena(arena.size).layout
        /\ arena.a.start = ChunkStart

\* two calls of different threads ran interleaved and both returned a
\* region, and a third call panicked
C27_Witness ==
    /\ arena.pc = "live"
    /\ Len(arena.regions) = 2
    /\ arena.regions[1].from > arena.regions[2].from
    /\ arena.regions[1].to > arena.regions[1].from
    /\ arena.regions[2].to > arena.regions[2].from
    /\ Len(arena.panics) = 1

(***************************************************************************)
(* The three fill functions, one by one                                    *)
(***************************************************************************)
\* the level-0 tables a level-0 to level-0 fill may take in this state
Level0Eligible(file_size) ==
    {i \in 1..Len(levels[1]) :
        /\ levels[1][i].size < file_size
        /\ clock.now - levels[1][i].created_at >= L0_TO_L0_MIN_AGE
        /\ levels[1][i].id \notin compact_status.tables}

\* the workers holding a filled level-0 to level-0 compaction
Level0ToLevel0InProgress ==
    {w \in Compactors : /\ compactors[w].pc = "returned"
                        /\ compactors[w].result = "Ok"
                        /\ compactors[w].compact_def.this_level = 0
                        /\ compactors[w].compact_def.next_level = 0}

InfRangesAtLevel0 ==
    {i \in 1..Len(compact_status.levels[1]) : compact_status.levels[1][i] = DefaultWithInf}

\* C28: fill_tables_level0_to_level0 returns true only for compactor 0 and
\* only with at least four level-0 tables that are below the level-0 target
\* file size, at least ten seconds old and not in the status table set; then
\* the top set is exactly those tables, the infinite range is registered for
\* level 0 and their ids are in the status table set; and never more than
\* one level-0 to level-0 compaction is in progress.
C28_Level0ToLevel0 ==
    /\ \A call \in FillCalls :
           (call.fn = "fill_tables_level0_to_level0" /\ call.r.ret = "true") =>
               LET eligible == Level0Eligible(level_targets.file_size[1]) IN
               /\ call.r.cd.compactor_id = 0
               /\ Cardinality(eligible) >= 4
               /\ Ids(call.r.cd.top) = {levels[1][i].id : i \in eligible}
               /\ Len(call.r.cd.top) = Cardinality(eligible)
               /\ call.r.cd.this_range = DefaultWithInf
               /\ DefaultWithInf \in RangesAt(call.r.cs, 0)
               /\ call.r.cs.tables = compact_status.tables \cup Ids(call.r.cd.top)
    /\ Cardinality(Level0ToLevel0InProgress) <= 1
    /\ Cardinality(InfRangesAtLevel0) <= 1

\* compactor 0 holds a level-0 to level-0 compaction of four tables while
\* compactor 1 holds a compaction of the base level
C28_Witness ==
    /\ Level0ToLevel0InProgress = {0}
    /\ Len(compactors[0].compact_def.top) >= 4
    /\ InfRangesAtLevel0 # {}
    /\ compactors[1].pc = "returned"
    /\ compactors[1].result = "Ok"

\* the calls of fill_tables for a level between level 0 and the last
MiddleFillCalls ==
    {call \in FillCalls : /\ call.fn = "fill_tables"
                          /\ call.r.cd.this_level > 0
                          /\ call.r.cd.this_level < max_levels - 1}

\* the tables of the level below whose key range overlaps that of table
OverlappedBelow(level, table) ==
    SelectSeq(Tables(level + 1), LAMBDA u : RangeOverlaps(FromTable(table), FromTable(u)))

\* a source table qualifies, as C29 states it: its range is free at its
\* level and the range of its overlapping target tables is free at theirs
QualifiesAsStated(level, table) ==
    LET below == OverlappedBelow(level, table) IN
    /\ ~StatusOverlaps(compact_status, level, FromTable(table))
    /\ Len(below) > 0 => ~StatusOverlaps(compact_status, level + 1, FromTables(below))

\* a source table qualifies, as the code has it: with no overlapping target
\* table its own range has to be free at the target level as well
Qualifies(level, table) ==
    LET below == OverlappedBelow(level, table) IN
    /\ ~StatusOverlaps(compact_status, level, FromTable(table))
    /\ ~StatusOverlaps(compact_status, level + 1,
                       IF Len(below) > 0 THEN FromTables(below) ELSE FromTable(table))

\* the outcome of a call agrees with a reading of "qualifies"
FillPicks(call, level, Q(_, _)) ==
    LET source == Tables(level)
        qualified == {i \in 1..Len(source) : Q(level, source[i])}
    IN IF call.r.ret = "true"
       THEN /\ Len(call.r.cd.top) = 1
            /\ \E i \in qualified :
                   /\ call.r.cd.top[1] = source[i]
                   /\ \A j \in qualified : source[i].max_version <= source[j].max_version
            /\ call.r.cd.bottom = OverlappedBelow(level, call.r.cd.top[1])
       ELSE qualified = {}

\* C29 as stated: fill_tables for a level L between 0 and the last returns
\* true with the one source table of smallest max version among those whose
\* range is free at L and whose overlapping target tables' range is free at
\* L+1, and with exactly the overlapping tables of L+1 as bottom; it returns
\* false only if no source table qualifies.
C29_GeneralFill ==
    \A call \in MiddleFillCalls : FillPicks(call, call.r.cd.this_level, QualifiesAsStated)

\* C29: the same, where a source table without overlapping target tables
\* qualifies only if its own range is free at level L+1 too.
C29_GeneralFillFreeBelow ==
    \A call \in MiddleFillCalls : FillPicks(call, call.r.cd.this_level, Qualifies)

\* a store for the fills below level 0: at most one level-0 table, and
\* tables of different max versions at the middle level
FillAttrs(level) ==
    IF level = 0 \/ level = max_levels - 1 THEN TableAttrs(level)
    ELSE {<<1, 0, 1>>, <<1, 0, 2>>}

FillLevelShapes(level) ==
    LET shapes == {[smallest |-> s[1], biggest |-> s[2], size |-> a[1],
                    stale_data_size |-> a[2], max_version |-> a[3], created_at |-> 0] :
                       s \in KeySpans, a \in FillAttrs(level)}
        most == IF level = 0 THEN 1 ELSE MaxLowerTables
        all == UNION {[1..n -> shapes] : n \in 0..most}
    IN {t \in all : \A i \in 1..(Len(t) - 1) : t[i].biggest < t[i + 1].smallest}

\* LevelsControllerBuilder::build, then start_compact
FillInit ==
    /\ \E store \in [1..max_levels -> UNION {FillLevelShapes(l) : l \in 0..(max_levels - 1)}] :
          /\ \A l \in 1..max_levels : store[l] \in FillLevelShapes(l - 1)
          /\ levels = WithIds(store)
    /\ compact_status = NewCompactStatus
    /\ compactors = [w \in Compactors |-> NewCompactor]
    /\ clock \in {[now |-> n, discard_ts |-> 1] : n \in {L0_TO_L0_MIN_AGE - 1, LMAX_MIN_AGE}}
    /\ closer = [captured |-> FALSE]

InitFill ==
    /\ OracleInit(FALSE)
    /\ config = DetectingConfig
    /\ CleanupIdle
    /\ ManifestIdle
    /\ FilesIdle
    /\ FillInit
    /\ StorageIdle
SpecFill == InitFill /\ [][CompactNext]_vars

\* a worker holds the compaction fill_tables gave it for the middle level:
\* the older of two tables, which both qualified, with the table below it
C29_Witness ==
    \E w \in Compactors :
        LET cd == compactors[w].compact_def IN
        /\ compactors[w].pc = "returned"
        /\ compactors[w].result = "Ok"
        /\ cd.this_level = 1
        /\ Len(cd.top) = 1
        /\ Len(cd.bottom) > 0
        /\ compact_status.tables = Ids(cd.top) \cup Ids(cd.bottom)
        /\ \E i \in 1..Len(Tables(1)) : Tables(1)[i].max_version > cd.top[1].max_version

(***************************************************************************)
(* The fill of the last level (levels.rs:650-744)                          *)
(***************************************************************************)
LastLevel == max_levels - 1

\* the calls of try_fill_max_level_tables for the last level that return true
LastFillCalls ==
    {call \in FillCalls : /\ call.fn = "try_fill_max_level_tables"
                          /\ call.r.cd.this_level = LastLevel
                          /\ call.r.ret = "true"}

\* a table of the last level is stale enough, old enough, at or below the
\* watermark, and its range is free at its level
MeetsLastLevel(table) ==
    /\ table.stale_data_size >= LMAX_MIN_STALE
    /\ clock.now - table.created_at >= LMAX_MIN_AGE
    /\ table.max_version <= clock.discard_ts
    /\ ~StatusOverlaps(compact_status, LastLevel, FromTable(table))

\* the position of a table in the level's key order
PositionOf(table) ==
    CHOOSE j \in 1..Len(Tables(LastLevel)) : Tables(LastLevel)[j].id = table.id

\* the range of a table together with the followers collected for it
RunRange(table) ==
    CollectBottom(Tables(LastLevel), PositionOf(table) + 1, table.size,
                  level_targets.file_size[LastLevel + 1],
                  [bottom |-> <<>>, next_range |-> FromTable(table)]).next_range

\* a table is passed over: it is below the target file size and the range
\* of the table with its followers reaches into an in-progress range
PassedOver(table) ==
    /\ table.size < level_targets.file_size[LastLevel + 1]
    /\ StatusOverlaps(compact_status, LastLevel, RunRange(table))

NeverPassedOver(table) == FALSE

\* the outcome of a call that returned true, where a table of larger stale
\* data that meets the conditions may have been left out only if Exempt
LastFillPicks(call, Exempt(_)) ==
    LET cd == call.r.cd
        tables == Tables(LastLevel)
    IN /\ Len(cd.top) = 1
       /\ \E j \in 1..Len(tables) :
              /\ cd.top[1] = tables[j]
              /\ j + Len(cd.bottom) <= Len(tables)
              /\ cd.bottom = SubSeq(tables, j + 1, j + Len(cd.bottom))
       /\ MeetsLastLevel(cd.top[1])
       /\ \A i \in 1..Len(tables) :
              (MeetsLastLevel(tables[i]) /\ ~Exempt(tables[i]))
                  => cd.top[1].stale_data_size >= tables[i].stale_data_size
       /\ cd.this_range = FromTable(cd.top[1])
       /\ Len(cd.bottom) > 0 =>
              cd.top[1].size + SumSizes(cd.bottom, Len(cd.bottom))
                  < cd.priority.targets.file_size[LastLevel + 1]

\* C30 as stated: whenever try_fill_max_level_tables returns true, top is one
\* table T, stale by at least 10 MiB, at least an hour old, with max version
\* at or below the watermark and a range free of in-progress ranges, of the
\* largest stale data among the tables meeting these conditions; this_range
\* is T's range; bottom is a run of tables right after T in key order, and
\* when it is non-empty T and bottom together are below the target file size.
C30_LastLevelFill ==
    \A call \in LastFillCalls : LastFillPicks(call, NeverPassedOver)

\* C30: the same, where T has the largest stale data among the tables that
\* meet the conditions and were not passed over because their range with
\* their followers reaches into an in-progress range.
C30_LastLevelFillNotPassedOver ==
    \A call \in LastFillCalls : LastFillPicks(call, PassedOver)

\* a store of three user keys for the fill of the last level: tables of one
\* key each, of different stale data at the last level
LastFillKeys == {0, 1, 2}

LastFillAttrs(level) ==
    IF level = LastLevel THEN {<<1, 0, 1>>, <<1, 1, 1>>, <<1, 2, 1>>, <<1, 1, 2>>}
    ELSE {<<1, 0, 1>>}

LastFillShapes(level) ==
    LET shapes == {[smallest |-> k, biggest |-> k, size |-> a[1],
                    stale_data_size |-> a[2], max_version |-> a[3], created_at |-> 0] :
                       k \in LastFillKeys, a \in LastFillAttrs(level)}
        most == IF level = LastLevel THEN MaxLowerTables ELSE 1
        all == UNION {[1..n -> shapes] : n \in 0..most}
    IN {t \in all : \A i \in 1..(Len(t) - 1) : t[i].biggest < t[i + 1].smallest}

\* LevelsControllerBuilder::build, then start_compact
LastFillInit ==
    /\ \E store \in [1..max_levels -> UNION {LastFillShapes(l) : l \in 0..LastLevel}] :
          /\ \A l \in 1..max_levels : store[l] \in LastFillShapes(l - 1)
          /\ levels = WithIds(store)
    /\ compact_status = NewCompactStatus
    /\ compactors = [w \in Compactors |-> NewCompactor]
    /\ clock \in {[now |-> n, discard_ts |-> 1] : n \in {L0_TO_L0_MIN_AGE - 1, LMAX_MIN_AGE}}
    /\ closer = [captured |-> FALSE]

InitLastFill ==
    /\ OracleInit(FALSE)
    /\ config = DetectingConfig
    /\ CleanupIdle
    /\ ManifestIdle
    /\ FilesIdle
    /\ LastFillInit
    /\ StorageIdle
SpecLastFill == InitLastFill /\ [][CompactNext]_vars

\* a worker holds the compaction of the last level it was given, of a table
\* of less stale data than another one that met the conditions and was
\* passed over, while a compaction into the last level is in progress
C30_Witness ==
    \E w \in Compactors :
        LET cd == compactors[w].compact_def IN
        /\ compactors[w].pc = "returned"
        /\ compactors[w].result = "Ok"
        /\ cd.this_level = LastLevel
        /\ Len(cd.top) = 1
        /\ \E i \in 1..Len(Tables(LastLevel)) :
               LET u == Tables(LastLevel)[i] IN
               /\ u.stale_data_size > cd.top[1].stale_data_size
               /\ u.max_version <= clock.discard_ts
               /\ clock.now - u.created_at >= LMAX_MIN_AGE
               /\ u.id \notin compact_status.tables


(***************************************************************************)
(* The fill from level 0 to the base level (levels.rs:805-856)             *)
(***************************************************************************)
\* the calls of fill_tables_level0_to_levelbase over a level 0 with tables
BaseFillCalls ==
    {call \in FillCalls : /\ call.fn = "fill_tables_level0_to_levelbase"
                          /\ call.r.ret # "panic"
                          /\ Len(Tables(0)) > 0}

\* a table shares a user key with the span of a non-empty list of tables
MeetsSpan(table, tables) ==
    LET ix == 1..Len(tables) IN
    /\ table.smallest <= Max({tables[i].biggest : i \in ix})
    /\ MinOf({tables[i].smallest : i \in ix}) <= table.biggest

RECURSIVE OverlapAccumulated(_, _, _)
\* every table that overlaps what was accumulated before it, and no other
OverlapAccumulated(tables, i, top) ==
    IF i > Len(tables) THEN top
    ELSE IF Len(top) = 0 \/ MeetsSpan(tables[i], top)
    THEN OverlapAccumulated(tables, i + 1, Append(top, tables[i]))
    ELSE OverlapAccumulated(tables, i + 1, top)

\* the longest run of tables from the first in which each table after the
\* first overlaps the span of those before it
OverlapRun(tables) ==
    LET Chained(n) == \A i \in 2..n : MeetsSpan(tables[i], SubSeq(tables, 1, i - 1))
    IN SubSeq(tables, 1, Max({n \in 1..Len(tables) : Chained(n)}))

\* the outcome of a call for a given top set
BaseFillPicks(call, top) ==
    LET cd == call.r.cd
        base == Tables(cd.next_level)
        this_range == KeyRange(KeyWithTsMax(MinOf({top[i].smallest : i \in 1..Len(top)})),
                               KeyWithTs0(Max({top[i].biggest : i \in 1..Len(top)})), FALSE)
    IN /\ cd.top = top
       /\ cd.this_range = this_range
       /\ cd.bottom = SelectSeq(base, LAMBDA u : MeetsSpan(u, top))
       /\ (\/ StatusOverlaps(compact_status, 0, cd.this_range)
           \/ StatusOverlaps(compact_status, cd.next_level, cd.next_range))
              => call.r.ret = "false"

\* C31 as stated: the top set of the fill from level 0 to the base level is
\* every level-0 table whose range overlaps the union of the ranges
\* accumulated before it and no other; this_range is the union of their
\* ranges; bottom is exactly the base-level tables overlapping this_range;
\* the candidate is rejected when its ranges collide with a range registered
\* for level 0 or for the base level.
C31_Level0ToBase ==
    \A call \in BaseFillCalls : BaseFillPicks(call, OverlapAccumulated(Tables(0), 1, <<>>))

\* C31: the same, where the top set is the longest run of level-0 tables
\* from the first in which each overlaps the union of the ranges before it:
\* the accumulation stops at the first table that does not overlap.
C31_Level0ToBaseRun ==
    \A call \in BaseFillCalls : BaseFillPicks(call, OverlapRun(Tables(0)))

\* a worker holds a compaction from level 0 to the base level with two
\* chained tables on top and a table below, while a later level-0 table that
\* overlaps them was left out behind one that does not
C31_Witness ==
    \E w \in Compactors :
        LET cd == compactors[w].compact_def IN
        /\ compactors[w].pc = "returned"
        /\ compactors[w].result = "Ok"
        /\ cd.this_level = 0
        /\ cd.next_level > 0
        /\ Len(cd.top) = 2
        /\ Len(cd.bottom) > 0
        /\ Len(Tables(0)) >= 4
        /\ ~MeetsSpan(Tables(0)[3], cd.top)
        /\ MeetsSpan(Tables(0)[4], cd.top)


(***************************************************************************)
(* add_splits (levels.rs:913-933) and its caller (levels.rs:541-547)       *)
(***************************************************************************)
MaxSplitKeys == 7       \* user keys of the store the splits are cut from
SplitKeys == 0..(MaxSplitKeys - 1)

SplitTable(smallest, biggest) ==
    [smallest |-> smallest, biggest |-> biggest, size |-> 1,
     stale_data_size |-> 0, max_version |-> 1, created_at |-> 0]

\* the tables of one user key each on a set of keys, in key order
RECURSIVE OneKeyTables(_)
OneKeyTables(keys) ==
    IF keys = {} THEN <<>>
    ELSE LET k == MinOf(keys) IN <<SplitTable(k, k)>> \o OneKeyTables(keys \ {k})

\* LevelsControllerBuilder::build, then start_compact: one table at level 1
\* over a span of keys, tables of one key each at level 2
SplitsInit ==
    /\ \E span \in {s \in SplitKeys \X SplitKeys : s[1] <= s[2]}, keys \in SUBSET SplitKeys :
          levels = WithIds(<<<<>>, <<SplitTable(span[1], span[2])>>, OneKeyTables(keys)>>)
    /\ compact_status = NewCompactStatus
    /\ compactors = [w \in Compactors |-> NewCompactor]
    /\ clock = [now |-> LMAX_MIN_AGE, discard_ts |-> 1]
    /\ closer = [captured |-> FALSE]

InitSplits ==
    /\ OracleInit(FALSE)
    /\ config = DetectingConfig
    /\ CleanupIdle
    /\ ManifestIdle
    /\ FilesIdle
    /\ SplitsInit
    /\ StorageIdle

\* the workers compact level 1 into level 2
SplitsNext ==
    \E w \in Compactors :
        \/ DoCompact(w, 1)
        \/ RunCompactDef(w)

SpecSplits == InitSplits /\ [][SplitsNext]_vars

\* key order: user key ascending, timestamp descending.  A bound 2x + 1 is
\* key_with_ts(x, 0), a bound 2x is key_with_ts(x, u64::MAX)
VersionBefore(k, ts, bound) ==
    LET x == bound \div 2 IN
    IF bound % 2 = 1 THEN k < x \/ (k = x /\ ts > 0) ELSE k < x

\* a version lies in a split: at or after its left bound and before its
\* right bound; an empty bound does not bound
InSplit(k, ts, split) ==
    /\ split.left = NoKey \/ ~VersionBefore(k, ts, split.left)
    /\ split.right = NoKey \/ VersionBefore(k, ts, split.right)

\* the workers whose CompactDef went through add_splits
Split == {w \in Compactors : /\ compactors[w].built
                             /\ compactors[w].result = "Ok"
                             /\ compactors[w].compact_def.this_level
                                    # compactors[w].compact_def.next_level}

\* C32: after add_splits with n >= 1 bottom tables the first split starts at
\* the left bound of the combined range of top and bottom, each later split
\* starts where the one before it ends, the last split has no right bound,
\* every interior boundary is the largest user key of a bottom table with
\* timestamp 0, and every version of a user key of the combined range lies
\* in exactly one split; with no bottom table there is one split without
\* bounds.
C32_SplitsPartition ==
    \A w \in Split :
        LET cd == compactors[w].compact_def
            s == cd.splits
            all == cd.top \o cd.bottom
            lo == MinOf({all[i].smallest : i \in 1..Len(all)})
            hi == Max({all[i].biggest : i \in 1..Len(all)})
        IN IF Len(cd.bottom) = 0 THEN s = <<DefaultKeyRange>>
           ELSE /\ Len(s) >= 1
                /\ s[1].left = KeyWithTsMax(lo)
                /\ \A i \in 2..Len(s) : s[i].left = s[i - 1].right
                /\ s[Len(s)].right = NoKey
                /\ \A i \in 1..(Len(s) - 1) :
                       \E j \in 1..Len(cd.bottom) :
                           s[i].right = KeyWithTs0(cd.bottom[j].biggest)
                /\ \A k \in lo..hi, ts \in 1..MaxTs :
                       Cardinality({i \in 1..Len(s) : InSplit(k, ts, s[i])}) = 1

\* a CompactDef with seven bottom tables was cut into three splits
C32_Witness ==
    \E w \in Split : /\ Len(compactors[w].compact_def.bottom) = 7
                     /\ Len(compactors[w].compact_def.splits) = 3

\* a CompactDef without bottom tables got the one split without bounds
C32_WitnessNoBottom ==
    \E w \in Split : /\ Len(compactors[w].compact_def.bottom) = 0
                     /\ Len(compactors[w].compact_def.splits) = 1


(***************************************************************************)
(* level_targets (levels.rs:604-649)                                       *)
(***************************************************************************)
MaxTargetSize == 3      \* a table of the store has a size in 1..MaxTargetSize

TargetTable(k, size) ==
    [smallest |-> k, biggest |-> k, size |-> size,
     stale_data_size |-> 0, max_version |-> 1, created_at |-> 0]

\* LevelsControllerBuilder::build, then start_compact, over stores whose
\* last level holds up to two tables of any size
TargetsInit ==
    /\ \E l0 \in {<<>>, <<TargetTable(0, 1)>>},
          l1 \in {<<>>} \cup {<<TargetTable(k, s)>> : k \in {0, 1}, s \in 1..2},
          l2 \in {<<>>} \cup {<<TargetTable(k, s)>> : k \in {0, 1}, s \in 1..MaxTargetSize}
                 \cup {<<TargetTable(0, s), TargetTable(1, t)>> :
                           s \in 1..MaxTargetSize, t \in 1..MaxTargetSize} :
          levels = WithIds(<<l0, l1, l2>>)
    /\ compact_status = NewCompactStatus
    /\ compactors = [w \in Compactors |-> NewCompactor]
    /\ clock = [now |-> LMAX_MIN_AGE, discard_ts |-> 1]
    /\ closer = [captured |-> FALSE]

InitTargets ==
    /\ OracleInit(FALSE)
    /\ config = DetectingConfig
    /\ CleanupIdle
    /\ ManifestIdle
    /\ FilesIdle
    /\ TargetsInit
    /\ StorageIdle
SpecTargets == InitTargets /\ [][CompactNext]_vars

\* the last level's total size divided down to level i
DividedSize(i) == get_total_size(LastLevel) \div (level_size_multiplier ^ (LastLevel - i))

\* the deepest level whose divided size is at or below the floor, 0 if none
DeepestAtFloor ==
    Max({0} \cup {i \in 1..LastLevel : DividedSize(i) <= base_level_size})

\* from there down across the empty levels above the last one
PastEmptyLevels ==
    Max({j \in DeepestAtFloor..Max({DeepestAtFloor, LastLevel - 1}) :
            \A i \in (DeepestAtFloor + 1)..j : get_total_size(i) = 0})

\* and one level further when that level is empty and the next one is below
\* its target size
AdjustedBaseLevel ==
    IF /\ PastEmptyLevels < LastLevel
       /\ get_total_size(PastEmptyLevels) = 0
       /\ get_total_size(PastEmptyLevels + 1) < level_targets.target_size[PastEmptyLevels + 2]
    THEN PastEmptyLevels + 1
    ELSE PastEmptyLevels

\* the target size of every level from 1 on is max(floor, S div m^(L-1-i))
TargetSizesAsStated ==
    \A i \in 1..LastLevel :
        level_targets.target_size[i + 1] = Max({base_level_size, DividedSize(i)})

\* the levels from 1 on whose target size is at or below the floor
AtFloor == {i \in 1..LastLevel : level_targets.target_size[i + 1] <= base_level_size}

\* C33 as stated: for every level i >= 1 the target size is
\* max(floor, S div m^(L-1-i)), and the returned base_level is the
\* shallowest level whose target size is at or below the floor.
C33_LevelTargets ==
    /\ TargetSizesAsStated
    /\ AtFloor # {} => level_targets.base_level = MinOf(AtFloor)

\* C33: the target sizes are as stated, and the returned base_level is the
\* deepest level whose divided size is at or below the floor (0 if there is
\* none), moved down across the empty levels above the last, and one level
\* further if it is empty and the level below it is under its target size.
C33_LevelTargetsDeepest ==
    /\ TargetSizesAsStated
    /\ level_targets.base_level = AdjustedBaseLevel

\* do_compact ran with the targets of a store whose levels 1 and 2 are both
\* at the floor, and took level 2 as the base level
C33_Witness ==
    \E w \in Compactors :
        /\ compactors[w].pc = "returned"
        /\ compactors[w].compact_def.priority.targets = level_targets
        /\ AtFloor = {1, 2}
        /\ level_targets.base_level = 2

\* C34 as stated: file_size[0] is the memtable size; file_size[i] is the
\* base table size for every level i from 1 to the returned base_level, and
\* file_size[i - 1] times the table-size multiplier for every level above it.
C34_FileSizes ==
    LET t == level_targets IN
    /\ t.file_size[1] = memtable_size
    /\ \A i \in 1..LastLevel :
           t.file_size[i + 1] = IF i <= t.base_level THEN base_table_size
                                ELSE t.file_size[i] * table_size_multiplier

\* C34: the same with the base level as it is before it is moved down, the
\* deepest level whose divided size is at or below the floor (0 if none):
\* up to it file_size is the base table size, and each level above it
\* multiplies the base table size once more.
C34_FileSizesBeforeAdjust ==
    LET t == level_targets IN
    /\ t.file_size[1] = memtable_size
    /\ \A i \in 1..LastLevel :
           t.file_size[i + 1] =
               IF i <= DeepestAtFloor THEN base_table_size
               ELSE base_table_size * (table_size_multiplier ^ (i - DeepestAtFloor))

\* do_compact ran with the targets of a store where the base level was moved
\* down to a level whose file size had already been multiplied
C34_Witness ==
    \E w \in Compactors :
        /\ compactors[w].pc = "returned"
        /\ compactors[w].compact_def.priority.targets = level_targets
        /\ level_targets.base_level > DeepestAtFloor
        /\ level_targets.file_size[level_targets.base_level + 1] > base_table_size

\* C38: level_targets returns a base_level from 1 to the last level index in
\* every reachable state, and no do_compact ends in the panic of
\* fill_tables_level0_to_levelbase.
C38_BaseLevelNeverZero ==
    /\ level_targets.base_level \in 1..LastLevel
    /\ \A w \in Compactors : compactors[w].result # "panic"


(***************************************************************************)
(* Both directions on one SinkBlockIter (table/read.rs:188-302)            *)
(***************************************************************************)
\* C35: for any interleaving of next() and next_back() on one SinkBlockIter
\* the forward and the backward cursor never cross, no call panics on an
\* index, every entry is yielded by at most one direction, and n entries are
\* yielded in total once both directions have returned false.
C35_BlockCursorsNeverCross ==
    block.pc \in {"iterating", "panicked"} =>
        /\ block.pc # "panicked"
        /\ (block.it.entry_index # None /\ block.it.back_entry_index # None)
               => block.it.entry_index < block.it.back_entry_index
        /\ Len(block.fwd) + Len(block.back) <= Len(block.pushed)
        /\ (block.fwd_done /\ block.back_done)
               => Len(block.fwd) + Len(block.back) = Len(block.pushed)

\* the part of it that holds: no direction yields more entries than the
\* block has
EachDirectionYieldsOnce ==
    block.pc \in {"iterating", "panicked"} =>
        /\ Len(block.fwd) <= Len(block.pushed)
        /\ Len(block.back) <= Len(block.pushed)


(***************************************************************************)
(* Tables of the compactions in progress                                   *)
(***************************************************************************)
\* the workers whose candidate is registered in CompactStatus
Registered == {w \in Compactors : compactors[w].pc = "returned" /\ compactors[w].result = "Ok"}

\* the ids of the top and the bottom tables of a worker's candidate
HeldIds(w) ==
    Ids(compactors[w].compact_def.top) \cup Ids(compactors[w].compact_def.bottom)

\* C36: in every reachable state the top and bottom table sets of any two
\* candidates that are registered in CompactStatus at the same time are
\* disjoint, whatever fill paths produced them.
C36_NoTableInTwoCompactions ==
    \A v, w \in Registered : v # w => HeldIds(v) \cap HeldIds(w) = {}

\* a level-0 to level-0 compaction of four tables is registered beside a
\* level-0 to base one that holds the fifth
C36_Witness ==
    /\ Registered = {0, 1}
    /\ compactors[0].compact_def.this_level = 0
    /\ compactors[0].compact_def.next_level = 0
    /\ compactors[1].compact_def.this_level = 0
    /\ compactors[1].compact_def.next_level > 0
    /\ Cardinality(HeldIds(0)) = 4
    /\ Cardinality(HeldIds(1)) = 1


(***************************************************************************)
(* The locks a fill takes (levels.rs:655-656, 751-752, 814-815, 872-873).  *)
(* LevelHandler is not part of the sources: handler_tables is taken with   *)
(* read().await, an asynchronous reader-writer lock, which is              *)
(* tokio::sync::RwLock in this crate (db.rs:23): requests are served in    *)
(* the order they were made, a read request behind a waiting write request *)
(* waits.  compact_status is a blocking lock held for one step.            *)
(***************************************************************************)
NumWriters == 1         \* tasks that change a level's table list
LockTasks == 0..(num_compactors + NumWriters - 1)
Writers == LockTasks \ Compactors
NoTask == 0 - 1

ReadOp(level) == [op |-> "read", level |-> level]
WriteOp(level) == [op |-> "write", level |-> level]
StatusOp == [op |-> "status", level |-> 0]
StatusDone == [op |-> "status done", level |-> 0]
DropOp == [op |-> "drop", level |-> 0]

\* try_fill_max_level_tables for the last level: this_level and next_level
\* are the same handler
LastLevelFill == <<ReadOp(LastLevel), ReadOp(LastLevel), StatusOp, StatusDone, DropOp>>

\* fill_tables for a level between: try_fill_max_level_tables takes both
\* guards and returns None, then fill_tables takes them again
MiddleLevelFill(level) ==
    <<ReadOp(level), ReadOp(level + 1), DropOp,
      ReadOp(level), ReadOp(level + 1), StatusOp, StatusDone, DropOp>>

\* fill_tables_level0: to the base level, and to level 0 when that fails
Level0Fill(base, again) ==
    <<ReadOp(0), ReadOp(base), StatusOp, StatusDone, DropOp>>
        \o (IF again THEN <<ReadOp(0), StatusOp, StatusDone, DropOp>> ELSE <<>>)

\* the locks do_compact takes for a level, in order
FillOps(level) ==
    IF level = 0 THEN {Level0Fill(base, again) : base \in 1..LastLevel, again \in BOOLEAN}
    ELSE IF level = LastLevel THEN {LastLevelFill}
    ELSE {MiddleLevelFill(level)}

NewLock == [queue |-> <<>>, readers |-> [t \in LockTasks |-> 0], writer |-> NoTask]

LocksInit ==
    table_locks = [pc |-> "on",
                   handler_tables |-> [l \in 0..LastLevel |-> NewLock],
                   status |-> NoTask,
                   ops |-> [t \in LockTasks |-> <<>>],
                   waiting |-> [t \in LockTasks |-> FALSE],
                   calls |-> [t \in LockTasks |-> FALSE],
                   level |-> [t \in LockTasks |-> NoTask],
                   returned |-> [t \in LockTasks |-> 0]]

Running(t) == table_locks.pc = "on" /\ Len(table_locks.ops[t]) > 0
NextOp(t) == table_locks.ops[t][1]

\* a worker calls do_compact for a level
StartFill(t, level) ==
    /\ table_locks.pc = "on"
    /\ Len(table_locks.ops[t]) = 0
    /\ table_locks.returned[t] < 1
    /\ \E ops \in FillOps(level) :
          table_locks' = [table_locks EXCEPT !.ops[t] = ops, !.calls[t] = TRUE,
                                             !.level[t] = level]
    /\ UNCHANGED <<opening, block, table_iter, builder, vlog, arena,
                   oracle_vars, cl, manifest_vars, compact_vars, file_vars>>

\* another task sets out to change the table list of a level
StartWrite(t, level) ==
    /\ table_locks.pc = "on"
    /\ Len(table_locks.ops[t]) = 0
    /\ table_locks.returned[t] < 1
    /\ table_locks' = [table_locks EXCEPT !.ops[t] = <<WriteOp(level), DropOp>>,
                                          !.calls[t] = TRUE,
                                          !.level[t] = level]
    /\ UNCHANGED <<opening, block, table_iter, builder, vlog, arena,
                   oracle_vars, cl, manifest_vars, compact_vars, file_vars>>

\* handler_tables.read().await / write().await: the request joins the queue
RequestLock(t) ==
    /\ Running(t)
    /\ NextOp(t).op \in {"read", "write"}
    /\ ~table_locks.waiting[t]
    /\ table_locks' = [table_locks EXCEPT
           !.handler_tables[NextOp(t).level].queue = Append(@, <<t, NextOp(t).op>>),
           !.waiting[t] = TRUE]
    /\ UNCHANGED <<opening, block, table_iter, builder, vlog, arena,
                   oracle_vars, cl, manifest_vars, compact_vars, file_vars>>

\* the lock serves the oldest request: a read when no writer holds the
\* lock, a write when nobody holds it
GrantLock(level) ==
    /\ table_locks.pc = "on"
    /\ LET lock == table_locks.handler_tables[level] IN
       /\ Len(lock.queue) > 0
       /\ LET t == lock.queue[1][1]
              kind == lock.queue[1][2]
          IN /\ lock.writer = NoTask
             /\ kind = "write" => \A u \in LockTasks : lock.readers[u] = 0
             /\ table_locks' = [table_locks EXCEPT
                    !.handler_tables[level] =
                        [queue |-> Tail(lock.queue),
                         readers |-> IF kind = "read"
                                     THEN [lock.readers EXCEPT ![t] = @ + 1]
                                     ELSE lock.readers,
                         writer |-> IF kind = "write" THEN t ELSE NoTask],
                    !.waiting[t] = FALSE,
                    !.ops[t] = Tail(@)]
    /\ UNCHANGED <<opening, block, table_iter, builder, vlog, arena,
                   oracle_vars, cl, manifest_vars, compact_vars, file_vars>>

\* compact_status.write() and the release of that guard
StatusLock(t) ==
    /\ Running(t)
    /\ \/ /\ NextOp(t).op = "status"
          /\ table_locks.status = NoTask
          /\ table_locks' = [table_locks EXCEPT !.status = t, !.ops[t] = Tail(@)]
       \/ /\ NextOp(t).op = "status done"
          /\ table_locks' = [table_locks EXCEPT !.status = NoTask, !.ops[t] = Tail(@)]
    /\ UNCHANGED <<opening, block, table_iter, builder, vlog, arena,
                   oracle_vars, cl, manifest_vars, compact_vars, file_vars>>

\* the guards of the task are dropped; the call returns after its last drop
DropGuards(t) ==
    /\ Running(t)
    /\ NextOp(t).op = "drop"
    /\ table_locks' = [table_locks EXCEPT
           !.handler_tables = [l \in 0..LastLevel |->
               [@[l] EXCEPT !.readers[t] = 0,
                            !.writer = IF @ = t THEN NoTask ELSE @]],
           !.ops[t] = Tail(@),
           !.returned[t] = IF Len(table_locks.ops[t]) = 1 THEN @ + 1 ELSE @]
    /\ UNCHANGED <<opening, block, table_iter, builder, vlog, arena,
                   oracle_vars, cl, manifest_vars, compact_vars, file_vars>>

LocksNext ==
    \/ \E t \in Compactors, level \in 0..LastLevel : StartFill(t, level)
    \/ \E t \in Writers, level \in 0..LastLevel : StartWrite(t, level)
    \/ \E t \in LockTasks : RequestLock(t)
    \/ \E level \in 0..LastLevel : GrantLock(level)
    \/ \E t \in LockTasks : StatusLock(t)
    \/ \E t \in LockTasks : DropGuards(t)

InitLocks ==
    /\ OracleInit(FALSE)
    /\ config = DetectingConfig
    /\ CleanupIdle
    /\ ManifestIdle
    /\ CompactIdle
    /\ FilesIdle
    /\ OpeningIdle /\ BlockIdle /\ TableIterIdle /\ BuilderIdle /\ VlogIdle /\ ArenaIdle
    /\ LocksInit

\* every task that can take a step is scheduled, and a lock serves its
\* oldest request once it can
LocksFairness ==
    /\ \A t \in LockTasks : WF_vars(RequestLock(t))
    /\ \A t \in LockTasks : WF_vars(StatusLock(t))
    /\ \A t \in LockTasks : WF_vars(DropGuards(t))
    /\ \A level \in 0..LastLevel : WF_vars(GrantLock(level))

SpecLocks == InitLocks /\ [][LocksNext]_vars /\ LocksFairness

Returned(t) == table_locks.pc = "on" /\ table_locks.returned[t] > 0

\* C37: a worker that calls do_compact, for the last level or for any other,
\* always eventually returns from its fill, whatever the other worker and a
\* task that takes a write lock do in between.
C37_FillAlwaysReturns ==
    \A t \in Compactors : (table_locks.pc = "on" /\ table_locks.calls[t]) ~> Returned(t)

\* as long as no worker fills the last level, every fill returns
OtherFillsReturn ==
    \A t \in Compactors :
        (table_locks.pc = "on" /\ table_locks.calls[t])
            ~> (Returned(t) \/ \E u \in Compactors : table_locks.level[u] = LastLevel)

\* a worker holds one read guard of the last level and waits for the second
\* behind a write request that waits for the first
CyclicWait ==
    /\ table_locks.pc = "on"
    /\ \E t \in Compactors, w \in Writers :
          LET lock == table_locks.handler_tables[LastLevel] IN
          /\ lock.readers[t] = 1
          /\ Len(lock.queue) >= 2
          /\ lock.queue[1] = <<w, "write">>
          /\ \E i \in 2..Len(lock.queue) : lock.queue[i] = <<t, "read">>

NoCyclicWait == ~CyclicWait


(***************************************************************************)
(* apply_manifest_change on the manifests that applied change sets reach   *)
(* (manifest.rs:252-282).                                                  *)
(***************************************************************************)
\* the level sets of a manifest that hold an id
LevelsHolding(manifest, id) ==
    {l \in 1..Len(manifest.levels) : id \in manifest.levels[l]}

\* a create change of a new id is applied and the id recorded at its level
CreateApplies(manifest, change) ==
    LET r == apply_manifest_change(manifest, change) IN
    /\ r.err = "none"
    /\ change.id \in DOMAIN r.manifest.tables
    /\ r.manifest.tables[change.id].level = change.level
    /\ change.level + 1 \in LevelsHolding(r.manifest, change.id)

\* a delete change of a live id is applied and the id is in no level set
DeleteApplies(manifest, change) ==
    LET r == apply_manifest_change(manifest, change) IN
    /\ r.err = "none"
    /\ change.id \notin DOMAIN r.manifest.tables
    /\ LevelsHolding(r.manifest, change.id) = {}

\* C39: on every manifest reached by applied change sets, a create change
\* for an id not in the manifest succeeds at every level number and records
\* the table at that level, and a delete change for a live id removes the id
\* from the level set that held it whatever level the change carries.
C39_CreateAndDeleteApply ==
    m_res.err = "none" =>
        \A change \in Changes :
            /\ (change.op = "Create" /\ change.id \notin DOMAIN m_res.manifest.tables)
                   => CreateApplies(m_res.manifest, change)
            /\ (change.op = "Delete" /\ change.id \in DOMAIN m_res.manifest.tables)
                   => DeleteApplies(m_res.manifest, change)

\* the create half for the levels the manifest has and the one after them
CreateAppliesUpToNextLevel ==
    m_res.err = "none" =>
        \A change \in Changes :
            (/\ change.op = "Create"
             /\ change.id \notin DOMAIN m_res.manifest.tables
             /\ change.level <= Len(m_res.manifest.levels))
                => CreateApplies(m_res.manifest, change)

\* a create more than one level past the end of levels ends in a panic
CreatePastNextLevelPanics ==
    m_res.err = "none" =>
        \A change \in Changes :
            (/\ change.op = "Create"
             /\ change.id \notin DOMAIN m_res.manifest.tables
             /\ change.level > Len(m_res.manifest.levels))
                => apply_manifest_change(m_res.manifest, change).err = "panic"

\* a delete carrying another level than the one that holds the id leaves
\* the id in that level's set, or ends in a panic
DeleteAtOtherLevelLeavesId ==
    m_res.err = "none" =>
        \A change \in Changes :
            (/\ change.op = "Delete"
             /\ change.id \in DOMAIN m_res.manifest.tables
             /\ LevelsHolding(m_res.manifest, change.id) # {}
             /\ change.level + 1 \notin LevelsHolding(m_res.manifest, change.id))
                => LET r == apply_manifest_change(m_res.manifest, change) IN
                   \/ r.err = "panic"
                   \/ LevelsHolding(r.manifest, change.id)
                          = LevelsHolding(m_res.manifest, change.id)


(***************************************************************************)
(* The byte ranges of the value pointers one write hands out               *)
(* (vlog/write.rs:53-80, 111-118).                                         *)
(***************************************************************************)
\* the places of the entries of a batch: request and position in it
Places(reqs) ==
    {p \in (1..Len(reqs)) \X (1..MaxReqEntries) : p[2] <= Len(reqs[p[1]])}

\* two pointers of one segment share a byte
RangesOverlap(a, b) ==
    /\ a.fid = b.fid
    /\ a.offset < b.offset + b.len
    /\ b.offset < a.offset + a.len

RECURSIVE EncodedLength(_, _)
\* the bytes of the records of a batch that are stored out of line
EncodedLength(reqs, places) ==
    IF places = {} THEN 0
    ELSE LET p == CHOOSE x \in places : TRUE
             e == reqs[p[1]][p[2]]
         IN (IF e.vptr = EmptyValuePointer THEN 0 ELSE Len(encode_entry(e)))
                + EncodedLength(reqs, places \ {p})

\* C40: a write that returns Ok gives the records it stores out of line
\* pairwise disjoint byte ranges [offset, offset + len) of the segment, and
\* advances the writable offset by the encoded length of every record
\* written, so the ranges of the next call lie behind those of this one.
C40_DisjointPointerRanges ==
    [][vlog'.pc = "open" /\ vlog'.result = "Ok" /\ vlog' # vlog =>
          /\ \A p, q \in Places(vlog'.reqs) :
                 LET a == vlog'.reqs[p[1]][p[2]].vptr
                     b == vlog'.reqs[q[1]][q[2]].vptr
                 IN (p # q /\ a # EmptyValuePointer /\ b # EmptyValuePointer)
                        => ~RangesOverlap(a, b)
          /\ vlog'.writable_log_offset =
                 vlog.writable_log_offset
                     + EncodedLength(vlog'.reqs, Places(vlog'.reqs))
      ]_vars

\* what write does instead: every record stored out of line gets the one
\* offset the call started with, and the offset stays where it was
AllPointersAtOneOffset ==
    [][vlog'.pc = "open" /\ vlog'.result = "Ok" /\ vlog' # vlog =>
          /\ \A p \in Places(vlog'.reqs) :
                 LET a == vlog'.reqs[p[1]][p[2]].vptr
                 IN a # EmptyValuePointer => a.offset = vlog.writable_log_offset
          /\ vlog'.writable_log_offset = vlog.writable_log_offset
      ]_vars

====
